---------------------------- MODULE Spec2Model ----------------------------
(***************************************************************************)
(* A model of the LAVA scheduler daemon's database job source              *)
(* (lava_scheduler_daemon/dbjobsource.py) and of the dispatcher's          *)
(* pipeline actions (lava_dispatcher/pipeline/actions).                    *)
(*                                                                         *)
(* Part I models DatabaseJobSource.  Every call runs in a worker thread    *)
(* (deferToThread) inside its own database transaction; one step of the    *)
(* model is one SQL statement (a SELECT, the UPDATE of a save(), a COMMIT  *)
(* or a ROLLBACK).  The database is PostgreSQL at its default isolation    *)
(* level, READ COMMITTED: a statement reads the committed rows, an UPDATE  *)
(* takes the row's lock until the transaction ends, and the unique index   *)
(* on Device.current_job is checked when the device row is written.        *)
(***************************************************************************)
EXTENDS Integers, Sequences, FiniteSets, TLC

(***************************************************************************)
(* Bounds of the model.                                                    *)
(***************************************************************************)
NumDevices == 2
NumJobs == 2
NumProcs == 2

\* The largest max_retries of a RetryAction.
MaxRetries == 3

\* The most qemu processes spawned in a behaviour.
MaxSpawned == 6
MaxTimeout == 3
MaxTime == 4

Devices == 1..NumDevices
Jobs == 1..NumJobs
Procs == 1..NumProcs

\* No job (Python's None, SQL's NULL); the failure of a call (its Deferred
\* fires with the exception); and no value at all (the thread has made no
\* call, its call is in progress, or the call was a jobCompleted, which
\* returns nothing).
None == 0
Raised == -1
NoResult == -2

\* Device.status and TestJob.status, by name.
IDLE == "IDLE"
DEV_RUNNING == "RUNNING"
SUBMITTED == "SUBMITTED"
RUNNING == "RUNNING"
COMPLETE == "COMPLETE"

\* TestJob.target: the one device a job was submitted for.  A job never
\* changes its target; job j is queued behind the jobs of smaller number
\* (submit_time grows with j).  The first two jobs are queued for board 1,
\* so that a board with a next job exists; the others go to the other boards
\* in turn.
target(j) == IF j <= 2 THEN 1 ELSE 2 + ((j - 3) % (NumDevices - 1))

VARIABLES
    dev,        \* committed Device rows: [status, current_job]
    job,        \* committed TestJob rows: [status]; start_time and end_time
                \* are written by the UPDATE that writes the status
    txDev,      \* per transaction: the device row it has written, uncommitted
    txJob,      \* per transaction: the job row it has written, uncommitted
    pc,         \* per worker thread: the statement it is about to execute
    board,      \* per worker thread: the board_name argument of its call
    selJob,     \* per worker thread: the job object it holds
    result,     \* per worker thread: what its last call returned
    retried,    \* per worker thread: its call has been through the except branch
    boardList   \* what the last getBoardList returned (a set of hostnames)

schedVars == <<dev, job, txDev, txJob, pc, board, selJob, result, retried,
               boardList>>

\* Part II, the dispatcher's pipeline of deploy actions.
VARIABLES
    parameters, \* the deploy parameters of the job: which images it names
    context,    \* what the host of the dispatcher and the data of the job provide
    actions,    \* per pipeline (named by its parent): the children appended
    phase,      \* "build", "validate", "run", or how the job ended
    stack,      \* the calls in progress: <<parent, index of the next child>>
    validated,  \* the names of the actions, in the order validate() entered them
    ran,        \* the names of the actions, in the order run() entered them
    errors,     \* per action: its errors list, as a set
    exception   \* the exception being raised or that ended the pass, or "none"

\* What only a run changes.
VARIABLES
    retry,      \* of the RetryAction: max_retries, and how each attempt ended
    connection, \* the connection the run() in progress was given
    data,       \* the data store of the job: entries [action, key, value];
                \* a value is named after the action that produced it
    unpacked,   \* the directories the overlay archive was extracted into
    files       \* what there is on the host: the location of the overlay,
                \* the archive of the overlay, the mount of the image

\* The filesystem of the host that the deploy actions work in.
VARIABLES
    cwd,        \* the current working directory of the dispatcher
    tmp,        \* how many directories mkdtemp has made
    paths,      \* the path held by each entry of the data store that names
                \* a directory or a file that these actions make
    host        \* the directories and files that the actions have made:
                \* the path of each, and the action that populated it

fsVars == <<cwd, tmp, paths, host>>

runVars == <<retry, connection, data, unpacked, files, fsVars>>

VARIABLES
    fields      \* of each action, the attributes that __init__ sets and that
                \* are not its name, description and summary

pipeVars == <<parameters, context, actions, phase, stack, validated, ran, errors,
              exception, runVars, fields>>

\* Part III, the QEMU target of the dispatcher.
VARIABLES
    procs,      \* the qemu processes spawned, in order: "open" or "closed";
                \* the connection to the device is the process
    spawn_timeout   \* the timeout each of them was spawned with

targetVars == <<procs, spawn_timeout>>

\* Part IV, what the strategies of a job are selected from.
VARIABLES
    device,     \* the device of the job: its boot methods and its board_id
    stanza      \* the parameters of the boot stanza: its method

jobVars == <<device, stanza>>

\* Part V, the deadlines of the actions that are running.
VARIABLES
    timeouts,   \* the timeout of each action, and of the job
    now,        \* the time
    path        \* the actions in progress, from the job down: each with the
                \* time it was started, the deadline it runs under and, for
                \* a RetryAction, the number of its attempt

clockVars == <<timeouts, now, path>>

\* Part VI, the set of boards that the daemon monitors.
VARIABLES
    boards,     \* BoardSet.boards: the Board object of each hostname
    board_objs, \* the Board objects created, in order: the hostname of
                \* each, how often it was started and how often stopped
    update_boards_call,     \* the LoopingCall: "new", "running", "stopped"
    board_cfgs  \* the answer of getBoardList on its way to the callback

serviceVars == <<boards, board_objs, update_boards_call, board_cfgs>>

\* Part VII, the push step of the release script.
VARIABLES
    options,    \* the options of the script: count, skip and dry_run
    at,         \* where handle_push is: "push", "rev-parse", "if", "wait",
                \* "tag", "done" or "raised"
    commands,   \* the commands that subprocess.call has run, in order, with
                \* what each returned
    observed    \* the statuses of the pipeline that wait_pipeline has seen

releaseVars == <<options, at, commands, observed>>

vars == <<schedVars, pipeVars, targetVars, jobVars, clockVars, serviceVars,
          releaseVars>>

NoDevWrite == [d |-> 0, status |-> IDLE, current_job |-> None]
NoJobWrite == [j |-> 0, status |-> SUBMITTED]

(***************************************************************************)
(* The database.                                                           *)
(***************************************************************************)

\* Another transaction holds the lock of device row d (it has updated the
\* row and has not ended).
DevLocked(p, d) == \E q \in Procs \ {p} : txDev[q].d = d

JobLocked(p, j) == \E q \in Procs \ {p} : txJob[q].j = j

\* The unique index on current_job: writing current_job = j to row d waits
\* while an open transaction has put j into, or is taking j out of, another
\* row ...
UniqueWaits(p, d, j) ==
    /\ j # None
    /\ \E q \in Procs \ {p} :
          /\ txDev[q].d \notin {0, d}
          /\ \/ txDev[q].current_job = j
             \/ dev[txDev[q].d].current_job = j

\* ... and fails with IntegrityError when another committed row holds j.
IntegrityError(d, j) ==
    /\ j # None
    /\ \E d2 \in Devices \ {d} : dev[d2].current_job = j

\* COMMIT: the transaction's writes become the committed rows.
CommittedDev(p) ==
    IF txDev[p].d = 0 THEN dev
    ELSE [dev EXCEPT ![txDev[p].d] =
             [status |-> txDev[p].status, current_job |-> txDev[p].current_job]]

CommittedJob(p) ==
    IF txJob[p].j = 0 THEN job
    ELSE [job EXCEPT ![txJob[p].j] =
             [status |-> txJob[p].status]]


\* A call ends: the thread goes back to the pool and the Deferred fires
\* with the value v (Raised: with the failure).
Return(p, v) ==
    /\ pc' = [pc EXCEPT ![p] = "idle"]
    /\ board' = [board EXCEPT ![p] = 1]
    /\ selJob' = [selJob EXCEPT ![p] = None]
    /\ result' = [result EXCEPT ![p] = v]

\* deferToThread runs a call in a thread of the reactor's pool that is not
\* running one; which of the free threads is of no consequence, and the
\* model takes the first.
FreeThread(p) ==
    /\ pc[p] = "idle"
    /\ \A q \in Procs : q < p => pc[q] # "idle"

(***************************************************************************)
(* DatabaseJobSource.getBoardList_impl                                     *)
(***************************************************************************)

\* [d.hostname for d in Device.objects.all()], with a filter on the status
\* that the code does not have.
GetBoardList_idle_only == {d \in Devices : dev[d].status = IDLE}

\* [d.hostname for d in Device.objects.all()]: every row of the table.
GetBoardList_impl == DOMAIN dev

GetBoardList(p) ==
    /\ FreeThread(p)
    /\ boardList' = GetBoardList_impl
    /\ UNCHANGED <<dev, job, txDev, txJob, pc, board, selJob, result, retried>>
    /\ UNCHANGED <<pipeVars, targetVars, jobVars, releaseVars, serviceVars, clockVars>>

(***************************************************************************)
(* DatabaseJobSource.getJobForBoard_impl                                   *)
(***************************************************************************)

\* The call: deferToThread(self.getJobForBoard_impl, board_name).
GetJobForBoard(p, b) ==
    /\ FreeThread(p)
    /\ pc' = [pc EXCEPT ![p] = "g_read"]
    /\ board' = [board EXCEPT ![p] = b]
    /\ result' = [result EXCEPT ![p] = NoResult]
    /\ retried' = [retried EXCEPT ![p] = FALSE]
    /\ UNCHANGED <<dev, job, txDev, txJob, selJob, boardList>>
    /\ UNCHANGED <<pipeVars, targetVars, jobVars, releaseVars, serviceVars, clockVars>>

\* The idle check without the check.
DeviceIsIdle_unchecked(d) == TRUE

\* device.status != Device.IDLE, on the row just read.
DeviceIsIdle(d) == dev[d].status = IDLE

\* while True: device = Device.objects.get(hostname=board_name);
\* if device.status != Device.IDLE: return None
GetJob_ReadDevice(p) ==
    /\ pc[p] = "g_read"
    /\ IF DeviceIsIdle(board[p])
       THEN /\ pc' = [pc EXCEPT ![p] = "g_query"]
            /\ UNCHANGED <<board, selJob, result>>
       ELSE Return(p, None)
    /\ UNCHANGED <<dev, job, txDev, txJob, retried, boardList>>
    /\ UNCHANGED <<pipeVars, targetVars, jobVars, releaseVars, serviceVars, clockVars>>

\* TestJob.objects.all().filter(target=device, status=TestJob.SUBMITTED).
\* The queryset that order_by('submit_time') returns is dropped, so the rows
\* come in no stated order and [:1] is any one of them.
JobsForDevice(d) == {j \in Jobs : target(j) = d /\ job[j].status = SUBMITTED}

\* jobs = jobs_for_device[:1]; if jobs: job = jobs[0]; job.status = RUNNING;
\* ...; device.current_job = job      else: return None
GetJob_QueryJobs(p) ==
    /\ pc[p] = "g_query"
    /\ IF JobsForDevice(board[p]) = {}
       THEN Return(p, None)
       ELSE /\ \E j \in JobsForDevice(board[p]) :
                  selJob' = [selJob EXCEPT ![p] = j]
            /\ pc' = [pc EXCEPT ![p] = "g_save_dev"]
            /\ UNCHANGED <<board, result>>
    /\ UNCHANGED <<dev, job, txDev, txJob, retried, boardList>>
    /\ UNCHANGED <<pipeVars, targetVars, jobVars, releaseVars, serviceVars, clockVars>>

\* Where the loop goes on after an IntegrityError, were the job kept and only
\* the save tried again.
AfterIntegrityError_resave == "g_save_dev"

\* except IntegrityError: transaction.rollback(); continue  -- back to the
\* top of the while loop, the read of the device.
AfterIntegrityError == "g_read"

\* device.save() raises IntegrityError.
DeviceSaveFails(d, j) == IntegrityError(d, j)

\* device.save(): the UPDATE of the device row with status RUNNING and
\* current_job = job.  It waits for the row's lock and for the unique index.
GetJob_SaveDevice(p) ==
    /\ pc[p] = "g_save_dev"
    /\ ~DevLocked(p, board[p])
    /\ ~UniqueWaits(p, board[p], selJob[p])
    /\ IF DeviceSaveFails(board[p], selJob[p])
       THEN \* transaction.rollback(); continue
            /\ txDev' = [txDev EXCEPT ![p] = NoDevWrite]
            /\ txJob' = [txJob EXCEPT ![p] = NoJobWrite]
            /\ selJob' = [selJob EXCEPT ![p] = None]
            /\ pc' = [pc EXCEPT ![p] = AfterIntegrityError]
            /\ retried' = [retried EXCEPT ![p] = TRUE]
       ELSE /\ txDev' = [txDev EXCEPT ![p] =
                   [d |-> board[p], status |-> DEV_RUNNING,
                    current_job |-> selJob[p]]]
            /\ pc' = [pc EXCEPT ![p] = "g_save_job"]
            /\ UNCHANGED <<txJob, selJob, retried>>
    /\ UNCHANGED <<dev, job, board, result, boardList>>
    /\ UNCHANGED <<pipeVars, targetVars, jobVars, releaseVars, serviceVars, clockVars>>

\* job.save(): the UPDATE of the job row with status RUNNING and start_time.
GetJob_SaveJob(p) ==
    /\ pc[p] = "g_save_job"
    /\ ~JobLocked(p, selJob[p])
    /\ txJob' = [txJob EXCEPT ![p] =
           [j |-> selJob[p], status |-> RUNNING]]
    /\ pc' = [pc EXCEPT ![p] = "g_commit"]
    /\ UNCHANGED <<dev, job, txDev, board, selJob, result, retried, boardList>>
    /\ UNCHANGED <<pipeVars, targetVars, jobVars, releaseVars, serviceVars, clockVars>>

\* transaction.commit(); return json.loads(job.definition)
GetJob_Commit(p) ==
    /\ pc[p] = "g_commit"
    /\ dev' = CommittedDev(p)
    /\ job' = CommittedJob(p)
    /\ txDev' = [txDev EXCEPT ![p] = NoDevWrite]
    /\ txJob' = [txJob EXCEPT ![p] = NoJobWrite]
    /\ Return(p, selJob[p])
    /\ UNCHANGED <<retried, boardList>>
    /\ UNCHANGED <<pipeVars, targetVars, jobVars, releaseVars, serviceVars, clockVars>>


(***************************************************************************)
(* DatabaseJobSource.jobCompleted_impl  (@transaction.commit_on_success)   *)
(***************************************************************************)

\* The call: deferToThread(self.jobCompleted_impl, board_name, log_file_path).
JobCompleted(p, b) ==
    /\ FreeThread(p)
    /\ pc' = [pc EXCEPT ![p] = "c_read"]
    /\ board' = [board EXCEPT ![p] = b]
    /\ result' = [result EXCEPT ![p] = NoResult]
    /\ retried' = [retried EXCEPT ![p] = FALSE]
    /\ UNCHANGED <<dev, job, txDev, txJob, selJob, boardList>>
    /\ UNCHANGED <<pipeVars, targetVars, jobVars, releaseVars, serviceVars, clockVars>>

\* device = Device.objects.get(hostname=board_name); device.status = IDLE;
\* device.current_job = None  (on the object, nothing is written yet)
Completed_ReadDevice(p) ==
    /\ pc[p] = "c_read"
    /\ pc' = [pc EXCEPT ![p] = "c_get_job"]
    /\ UNCHANGED <<dev, job, txDev, txJob, board, selJob, result, retried, boardList>>
    /\ UNCHANGED <<pipeVars, targetVars, jobVars, releaseVars, serviceVars, clockVars>>

\* The running jobs of a device or, when it has none, its first job.
RunningJobs_or_first(d) ==
    IF \E j \in Jobs : target(j) = d /\ job[j].status = RUNNING
    THEN {j \in Jobs : target(j) = d /\ job[j].status = RUNNING}
    ELSE {j \in Jobs : target(j) = d /\ \A k \in Jobs : target(k) = d => j <= k}

\* The running jobs of a device.
RunningJobs(d) == {j \in Jobs : target(j) = d /\ job[j].status = RUNNING}

\* job = TestJob.objects.get(target=device, status=TestJob.RUNNING): get()
\* raises DoesNotExist or MultipleObjectsReturned unless exactly one row
\* matches; commit_on_success then rolls back and the call fails.
Completed_GetJob(p) ==
    /\ pc[p] = "c_get_job"
    /\ IF Cardinality(RunningJobs(board[p])) = 1
       THEN /\ selJob' = [selJob EXCEPT ![p] =
                   CHOOSE j \in RunningJobs(board[p]) : TRUE]
            /\ pc' = [pc EXCEPT ![p] = "c_save_dev"]
            /\ UNCHANGED <<board, result>>
       ELSE Return(p, Raised)
    /\ UNCHANGED <<dev, job, txDev, txJob, retried, boardList>>
    /\ UNCHANGED <<pipeVars, targetVars, jobVars, releaseVars, serviceVars, clockVars>>

\* The device row that jobCompleted writes, were current_job left as it is.
CompletedDeviceRow_keeps_job(d) ==
    [d |-> d, status |-> IDLE, current_job |-> dev[d].current_job]

\* device.status = Device.IDLE; device.current_job = None
CompletedDeviceRow(d) == [d |-> d, status |-> IDLE, current_job |-> None]

\* device.save()
Completed_SaveDevice(p) ==
    /\ pc[p] = "c_save_dev"
    /\ ~DevLocked(p, board[p])
    /\ txDev' = [txDev EXCEPT ![p] = CompletedDeviceRow(board[p])]
    /\ pc' = [pc EXCEPT ![p] = "c_save_job"]
    /\ UNCHANGED <<dev, job, txJob, board, selJob, result, retried, boardList>>
    /\ UNCHANGED <<pipeVars, targetVars, jobVars, releaseVars, serviceVars, clockVars>>

\* job.status = TestJob.COMPLETE; job.end_time = utcnow(); job.save()
Completed_SaveJob(p) ==
    /\ pc[p] = "c_save_job"
    /\ ~JobLocked(p, selJob[p])
    /\ txJob' = [txJob EXCEPT ![p] =
           [j |-> selJob[p], status |-> COMPLETE]]
    /\ pc' = [pc EXCEPT ![p] = "c_commit"]
    /\ UNCHANGED <<dev, job, txDev, board, selJob, result, retried, boardList>>
    /\ UNCHANGED <<pipeVars, targetVars, jobVars, releaseVars, serviceVars, clockVars>>

\* The function returns: commit_on_success commits.
Completed_Commit(p) ==
    /\ pc[p] = "c_commit"
    /\ dev' = CommittedDev(p)
    /\ job' = CommittedJob(p)
    /\ txDev' = [txDev EXCEPT ![p] = NoDevWrite]
    /\ txJob' = [txJob EXCEPT ![p] = NoJobWrite]
    /\ Return(p, NoResult)
    /\ UNCHANGED <<retried, boardList>>
    /\ UNCHANGED <<pipeVars, targetVars, jobVars, releaseVars, serviceVars, clockVars>>

(***************************************************************************)
(* Part II.  The deploy actions that prepare a TFTP overlay, and the       *)
(* pipeline that builds, validates and runs them.  One step is one call    *)
(* of add_action, validate() or run(), or the return of one.               *)
(***************************************************************************)

JOB == "job"
PREPARE_TFTP_OVERLAY == "prepare-tftp-overlay"
EXTRACT_NFSROOTFS == "extract-nfsrootfs"
LAVA_OVERLAY == "lava-overlay"
EXTRACT_RAMDISK == "extract-overlay-ramdisk"
EXTRACT_MODULES == "extract-modules"
APPLY_OVERLAY_TFTP == "apply-overlay-tftp"
COMPRESS_RAMDISK == "compress-ramdisk"
MULTINODE_OVERLAY == "lava-multinode-overlay"
TEST_DEFINITION == "test-definition"
COMPRESS_OVERLAY == "compress-overlay"

APPLY_OVERLAY_IMAGE == "apply-overlay-image"

BOOT_PYOCD_IMAGE == "boot_pyocd_image"
BOOT_PYOCD_RETRY == "boot_pyocd_image (retry)"
MONITOR_PYOCD == "monitor-pyocd"
CONNECT_DEVICE == "connect-device"

\* The actions of the pyocd boot.  BootMonitoredPyOCDRetry has the name of
\* its parent, BootMonitoredPyOCD: the model tells them apart.
BootActionNames ==
    {BOOT_PYOCD_IMAGE, BOOT_PYOCD_RETRY, MONITOR_PYOCD, CONNECT_DEVICE}

\* The actions of the tftp deploy that are above and beside
\* prepare-tftp-overlay: one download per image of the job, each named
\* download-retry, which the model tells apart.
TFTP_DEPLOY == "tftp-deploy"
DOWNLOAD_RETRY == "download-retry"
DownloadRetry == {"download-retry (1)", "download-retry (2)",
                  "download-retry (3)"}
LXC_CREATE_UDEV_RULE == "lxc-create-udev-rule-action"
DEPLOY_DEVICE_ENV == "deploy-device-env"

TftpActionNames ==
    {TFTP_DEPLOY, LXC_CREATE_UDEV_RULE, DEPLOY_DEVICE_ENV} \cup DownloadRetry

\* The name attribute of an action.
name(a) ==
    IF a = BOOT_PYOCD_RETRY THEN "boot_pyocd_image"
    ELSE IF a \in DownloadRetry THEN DOWNLOAD_RETRY
    ELSE a

\* The subclasses of RetryAction, were PrepareOverlayTftp one.
RetryActions_and_prepare == {BOOT_PYOCD_RETRY, PREPARE_TFTP_OVERLAY}

\* The subclasses of RetryAction.
RetryActions == {BOOT_PYOCD_RETRY}

\* The actions of the deploy.
ActionNames ==
    {PREPARE_TFTP_OVERLAY, EXTRACT_NFSROOTFS, LAVA_OVERLAY, EXTRACT_RAMDISK,
     EXTRACT_MODULES, APPLY_OVERLAY_TFTP, COMPRESS_RAMDISK, MULTINODE_OVERLAY,
     TEST_DEFINITION, COMPRESS_OVERLAY}

\* Every action of the model: those of the tftp deploy, those of the boot,
\* and the action that applies the overlay to a mounted image.
AllActionNames == ActionNames \cup BootActionNames \cup {APPLY_OVERLAY_IMAGE}

\* PrepareOverlayTftp.populate, with the overlay added after the ramdisk is
\* extracted instead of before.
PrepareOverlayTftp_populate_ramdisk_first ==
    <<EXTRACT_NFSROOTFS, EXTRACT_RAMDISK, LAVA_OVERLAY, EXTRACT_MODULES,
      APPLY_OVERLAY_TFTP, COMPRESS_RAMDISK>>

\* PrepareOverlayTftp.populate, were the overlay added twice.
PrepareOverlayTftp_populate_overlay_twice ==
    <<EXTRACT_NFSROOTFS, LAVA_OVERLAY, LAVA_OVERLAY, EXTRACT_RAMDISK,
      EXTRACT_MODULES, APPLY_OVERLAY_TFTP, COMPRESS_RAMDISK>>

\* PrepareOverlayTftp.populate: the actions it adds, in the order of its
\* add_action calls.
PrepareOverlayTftp_populate ==
    <<EXTRACT_NFSROOTFS, LAVA_OVERLAY, EXTRACT_RAMDISK, EXTRACT_MODULES,
      APPLY_OVERLAY_TFTP, COMPRESS_RAMDISK>>

\* OverlayAction.populate.
OverlayAction_populate ==
    <<MULTINODE_OVERLAY, TEST_DEFINITION, COMPRESS_OVERLAY>>

\* MultinodeOverlayAction.populate overrides it with pass.
MultinodeOverlayAction_populate == <<>>

\* BootMonitoredPyOCD.populate.
BootMonitoredPyOCD_populate == <<BOOT_PYOCD_RETRY>>

\* BootMonitoredPyOCDRetry.populate.
BootMonitoredPyOCDRetry_populate == <<MONITOR_PYOCD, CONNECT_DEVICE>>

\* The internal pipeline of tftp-deploy for a job with three images.
TftpAction_populate ==
    <<"download-retry (1)", "download-retry (2)", "download-retry (3)",
      PREPARE_TFTP_OVERLAY, LXC_CREATE_UDEV_RULE, DEPLOY_DEVICE_ENV>>

\* The job's own pipeline holds the one deploy action modelled here.
Job_populate == <<PREPARE_TFTP_OVERLAY>>

\* What populate() of an action adds to its internal pipeline.
populate(a) ==
    CASE a = JOB -> Job_populate
      [] a = TFTP_DEPLOY -> TftpAction_populate
      [] a = PREPARE_TFTP_OVERLAY -> PrepareOverlayTftp_populate
      [] a = LAVA_OVERLAY -> OverlayAction_populate
      [] a = MULTINODE_OVERLAY -> MultinodeOverlayAction_populate
      [] a = BOOT_PYOCD_IMAGE -> BootMonitoredPyOCD_populate
      [] a = BOOT_PYOCD_RETRY -> BootMonitoredPyOCDRetry_populate
      [] OTHER -> <<>>

Range(s) == {s[i] : i \in 1..Len(s)}

\* The frame on top of the stack, and the stack after the call on top of it
\* has returned to its caller, which goes on with its next child.
Top == stack[Len(stack)]
Returned ==
    LET rest == SubSeq(stack, 1, Len(stack) - 1)
    IN  IF rest = <<>> THEN rest
        ELSE [rest EXCEPT ![Len(rest)].i = rest[Len(rest)].i + 1]
Call(a) == Append(stack, [parent |-> a, i |-> 1])

\* The calls left when an exception has gone up to the innermost run() of
\* a RetryAction, the only run() that catches one: none if there is none.
RECURSIVE Unwind(_)
Unwind(st) ==
    IF st = <<>> THEN st
    ELSE IF st[Len(st)].parent \in RetryActions THEN st
    ELSE Unwind(SubSeq(st, 1, Len(st) - 1))

(***************************************************************************)
(* Selection of the strategy of a stanza.                                  *)
(***************************************************************************)

\* What a dictionary gives for a key it lacks.
Absent == "None"

\* The values of a deploy parameter that names an image: not given, given
\* as an empty string, given as the name of a file.
EMPTY == ""
IMAGE == "image"
ParameterValues == {Absent, EMPTY, IMAGE}

\* parameters.get(k, None) taken as a condition, and compared with None.
truth(v) == v \notin {Absent, EMPTY}
is_not_None(v) == v # Absent

\* BootMonitorPyOCD.accepts, were a device without board_id accepted.
BootMonitorPyOCD_accepts_any_board(dv, prm) ==
    IF "pyocd" \notin dv.methods THEN FALSE
    ELSE IF prm.method = Absent THEN FALSE
    ELSE IF prm.method # "monitor" THEN FALSE
    ELSE TRUE

\* BootMonitorPyOCD.accepts(device, parameters); a key that a dictionary
\* lacks is Absent.
BootMonitorPyOCD_accepts(dv, prm) ==
    IF "pyocd" \notin dv.methods THEN FALSE
    ELSE IF prm.method = Absent THEN FALSE
    ELSE IF prm.method # "monitor" THEN FALSE
    ELSE IF dv.board_id = Absent THEN FALSE
    ELSE TRUE

\* The strategies registered for the boot stanza, in priority order, and
\* the action each of them adds to the pipeline of the job.
BOOT_MONITOR_PYOCD == "BootMonitorPyOCD"
Registry == <<BOOT_MONITOR_PYOCD>>

accepts(strategy, dv, prm) ==
    CASE strategy = BOOT_MONITOR_PYOCD -> BootMonitorPyOCD_accepts(dv, prm)
      [] OTHER -> FALSE

BootMonitorPyOCD_action == BOOT_PYOCD_IMAGE

\* The selector, were the first strategy the default.
RECURSIVE Select_or_first(_, _, _)
Select_or_first(registry, dv, prm) == registry[1]

\* The first strategy that accepts, Absent when none does.
RECURSIVE Select(_, _, _)
Select(registry, dv, prm) ==
    IF registry = <<>> THEN Absent
    ELSE IF accepts(Head(registry), dv, prm) THEN Head(registry)
    ELSE Select(Tail(registry), dv, prm)

\* The strategy of the boot stanza is selected and constructed: its
\* __init__ adds its action to the pipeline of the job; with no strategy
\* the construction of the pipeline fails.
select ==
    /\ phase = "select"
    /\ LET strategy == Select(Registry, device, stanza)
       IN  IF strategy = Absent
           THEN /\ phase' = "raised"
                /\ exception' = "ConfigurationError"
                /\ UNCHANGED <<actions, stack>>
           ELSE /\ phase' = "build"
                /\ exception' = exception
                /\ actions' = [actions EXCEPT
                                 ![JOB] = Append(@, BootMonitorPyOCD_action)]
                /\ stack' = <<[parent |-> BootMonitorPyOCD_action, i |-> 1]>>
    /\ UNCHANGED <<parameters, context, validated, ran, errors>>
    /\ UNCHANGED runVars
    /\ UNCHANGED <<schedVars, targetVars, jobVars, releaseVars, serviceVars, clockVars>>
    /\ UNCHANGED fields

(***************************************************************************)
(* Build.                                                                  *)
(***************************************************************************)

\* Pipeline.add_action: the action is appended to the pipeline's actions
\* and its populate() is called.
add_action ==
    /\ phase = "build"
    /\ stack # <<>>
    /\ Top.i <= Len(populate(Top.parent))
    /\ LET a == populate(Top.parent)[Top.i]
       IN  /\ actions' = [actions EXCEPT ![Top.parent] = Append(@, a)]
           /\ stack' = Call(a)
    /\ UNCHANGED <<parameters, context, phase, validated, ran, errors, exception>>
    /\ UNCHANGED runVars
    /\ UNCHANGED <<schedVars, targetVars, jobVars, releaseVars, serviceVars, clockVars>>
    /\ UNCHANGED fields

\* populate() has made its last add_action call and returns.
populate_return ==
    /\ phase = "build"
    /\ stack # <<>>
    /\ Top.i > Len(populate(Top.parent))
    /\ stack' = Returned
    /\ UNCHANGED <<parameters, context, actions, phase, validated, ran, errors,
                   exception>>
    /\ UNCHANGED runVars
    /\ UNCHANGED <<schedVars, targetVars, jobVars, releaseVars, serviceVars, clockVars>>
    /\ UNCHANGED fields

(***************************************************************************)
(* Validation.                                                             *)
(***************************************************************************)

\* The data store.  self.data[a][k] raises KeyError when nothing is stored
\* under a and k; self.data[a].get(k) is None then.
DOWNLOAD_ACTION == "download_action"
BOOT == "boot"
LOOP_MOUNT == "loop_mount"

\* What files holds: the directory recorded as lava-overlay/location
\* exists, the archive of the overlay exists, the directory recorded as
\* loop_mount/mntdir is a mount point.
LOCATION == "location"
ARCHIVE == "archive"
MOUNT == "mount"

Has(d, a, k) == \E e \in d : e.action = a /\ e.key = k
Get(d, a, k) ==
    IF Has(d, a, k)
    THEN (CHOOSE e \in d : e.action = a /\ e.key = k).value
    ELSE Absent
Set(d, a, k, v) ==
    {e \in d : ~(e.action = a /\ e.key = k)} \cup
       {[action |-> a, key |-> k, value |-> v]}
SetDefault(d, a, k, v) == IF Has(d, a, k) THEN d ELSE Set(d, a, k, v)

\* What the download actions, which come before these in a job, have left
\* in the store when these are validated: the file of each image named.
Downloaded ==
    IF context.download_action # "file" THEN {}
    ELSE {[action |-> DOWNLOAD_ACTION, key |-> k, value |-> DOWNLOAD_ACTION] :
            k \in {i \in {"nfsrootfs", "ramdisk", "modules"} : truth(parameters[i])}}

\* The store a validate() leaves: none of them writes to it.
OverlayAction_validate_data_location(d) ==
    SetDefault(d, LAVA_OVERLAY, "location", LAVA_OVERLAY)
OverlayAction_validate_data(d) == d

validate_data(a, d) ==
    IF a = LAVA_OVERLAY THEN OverlayAction_validate_data(d) ELSE d

\* The errors that validate() of an action appends, after the validate() of
\* its base class has returned.
ExtractNfsRootfs_errors ==
    IF ~truth(parameters.nfsrootfs) THEN {}
    ELSE IF context.download_action = "absent"
         THEN {"missing download_action in parameters"}
    ELSE IF context.download_action = "no file"
         THEN {"no file specified extract as nfsrootfs"}
    ELSE {}

OverlayAction_errors ==
    IF ~context.scripts
    THEN {"Unable to locate lava_test_shell support scripts."}
    ELSE {}

MultinodeOverlayAction_errors ==
    OverlayAction_errors \cup
        (IF context.protocol = "no role"
         THEN {"multinode job without a specified role"}
         ELSE {})

\* The command of a device, when the host does not have it.
NOT_INSTALLED == "not installed"

\* MonitorPyOCDAction.validate: the binary must be installed and the
\* board_id set.
MonitorPyOCDAction_errors ==
    IF "pyocd" \notin device.methods THEN {}
    ELSE (IF device.command = NOT_INSTALLED
          THEN {"Cannot find command in PATH"} ELSE {})
         \cup (IF device.board_id = "0000000000"
               THEN {"board_id unset"} ELSE {})

validate_errors(a) ==
    CASE a = EXTRACT_NFSROOTFS -> ExtractNfsRootfs_errors
      [] a = MONITOR_PYOCD -> MonitorPyOCDAction_errors
      [] a = LAVA_OVERLAY -> OverlayAction_errors
      [] a = MULTINODE_OVERLAY -> MultinodeOverlayAction_errors
      [] OTHER -> {}

\* The exception that validate() of an action raises, "none" if it returns.
ExtractNfsRootfs_raises ==
    IF truth(parameters.nfsrootfs) /\ ~context.exportfs
    THEN "InfrastructureError" ELSE "none"

CompressRamdisk_raises ==
    IF truth(parameters.ramdisk) /\ ~context.mkimage
    THEN "InfrastructureError" ELSE "none"

\* MonitorPyOCDAction.validate indexes the device and the store, and calls
\* the dictionary of the downloads.
MonitorPyOCDAction_raises ==
    IF "pyocd" \notin device.methods \/ device.board_id = Absent
    THEN "KeyError"
    ELSE IF \A e \in data : e.action # DOWNLOAD_ACTION THEN "KeyError"
    ELSE "TypeError"

validate_raises(a) ==
    CASE a = EXTRACT_NFSROOTFS -> ExtractNfsRootfs_raises
      [] a = MONITOR_PYOCD -> MonitorPyOCDAction_raises
      [] a = COMPRESS_RAMDISK -> CompressRamdisk_raises
      [] OTHER -> "none"

\* The attributes of the actions as their __init__ leaves them.
OverlayAction_init == [scripts_to_copy |-> <<>>, xmod |-> "rwxr-xr-x"]
MultinodeOverlayAction_init ==
    [scripts_to_copy |-> <<>>, xmod |-> "rwxr-xr-x", role |-> Absent,
     protocol |-> "lava-multinode"]
MonitorPyOCDAction_init == [sub_command |-> <<>>]

\* The actions whose __init__ sets more than name, description and summary.
WithAttributes == {LAVA_OVERLAY, MULTINODE_OVERLAY, MONITOR_PYOCD}

Constructed ==
    [a \in WithAttributes |->
        CASE a = LAVA_OVERLAY -> OverlayAction_init
          [] a = MULTINODE_OVERLAY -> MultinodeOverlayAction_init
          [] a = MONITOR_PYOCD -> MonitorPyOCDAction_init]

\* The attributes a validate() assigns.  OverlayAction.validate lists the
\* scripts to copy; MultinodeOverlayAction.validate does so too, then takes
\* the role from the protocol of the job; MonitorPyOCDAction.validate starts
\* the command line, which it has assigned when a later line raises.
OverlayAction_scripts_to_copy ==
    IF context.scripts THEN <<"lava-*">> ELSE <<>>

MultinodeOverlayAction_role(role) ==
    IF context.protocol = "role" THEN "role" ELSE role

MonitorPyOCDAction_sub_command(sub_command) ==
    IF "pyocd" \notin device.methods THEN sub_command
    ELSE <<"flock -o /var/lock/lava-pyocd.lck", device.command>>

\* validate(), were it to assign no attribute but errors.
validate_fields_none(a, f) == f

validate_fields(a, f) ==
    CASE a = LAVA_OVERLAY ->
            [f EXCEPT ![a].scripts_to_copy = OverlayAction_scripts_to_copy]
      [] a = MULTINODE_OVERLAY ->
            [f EXCEPT ![a].scripts_to_copy = OverlayAction_scripts_to_copy,
                      ![a].role = MultinodeOverlayAction_role(@)]
      [] a = MONITOR_PYOCD ->
            [f EXCEPT ![a].sub_command = MonitorPyOCDAction_sub_command(@)]
      [] OTHER -> f

\* The attributes of the actions once all of them are validated.
Validated == [a \in WithAttributes |-> validate_fields(a, Constructed)[a]]

\* Action.validate is entered for the next child of the pipeline on top of
\* the stack; the validate() of the base class is what every validate() of
\* these actions calls first, and it validates the internal pipeline.
validate ==
    /\ phase = "validate"
    /\ Top.i <= Len(actions[Top.parent])
    /\ LET a == actions[Top.parent][Top.i]
       IN  /\ validated' = Append(validated, a)
           /\ stack' = Call(a)
    /\ UNCHANGED <<parameters, context, actions, phase, ran, errors, exception>>
    /\ UNCHANGED runVars
    /\ UNCHANGED <<schedVars, targetVars, jobVars, releaseVars, serviceVars, clockVars>>
    /\ UNCHANGED fields

\* The internal pipeline is validated: the action's own checks follow, and
\* validate() returns or raises.
validate_return ==
    /\ phase = "validate"
    /\ Top.i > Len(actions[Top.parent])
    /\ Top.parent # JOB
    /\ LET a == Top.parent
       IN  /\ errors' = [errors EXCEPT ![a] = @ \cup validate_errors(a)]
           /\ exception' = validate_raises(a)
           /\ data' = validate_data(a, data)
           /\ fields' = validate_fields(a, fields)
           /\ IF validate_raises(a) = "none"
              THEN /\ stack' = Returned
                   /\ phase' = phase
              ELSE /\ stack' = <<>>
                   /\ phase' = "raised"
    /\ UNCHANGED <<parameters, context, actions, validated, ran>>
    /\ UNCHANGED <<retry, connection, unpacked, files, fsVars>>
    /\ UNCHANGED <<schedVars, targetVars, jobVars, releaseVars, serviceVars, clockVars>>

\* The errors of the whole tree, as the job's pipeline reports them.
pipeline_errors_ignored == {}
pipeline_errors == UNION {errors[a] : a \in ActionNames}

\* Every action of the tree has been validated: the job is rejected if any
\* has an error, and run otherwise.
validate_done ==
    /\ phase = "validate"
    /\ Top.parent = JOB
    /\ Top.i > Len(actions[JOB])
    /\ phase' = IF pipeline_errors # {} THEN "rejected" ELSE "run"
    /\ stack' = <<[parent |-> JOB, i |-> 1]>>
    /\ UNCHANGED <<parameters, context, actions, validated, ran, errors,
                   exception>>
    /\ UNCHANGED runVars
    /\ UNCHANGED <<schedVars, targetVars, jobVars, releaseVars, serviceVars, clockVars>>
    /\ UNCHANGED fields

(***************************************************************************)
(* Run.                                                                    *)
(***************************************************************************)

\* How run() of an action can end before its internal pipeline, if it has
\* one, is run: the exception it raises ("none" if it goes on or returns)
\* and the errors it has appended by then.
Outcomes(raises) == {[raises |-> e, errors |-> {}] : e \in raises}

\* How run() ends, given the store d, and the store it leaves when it
\* returns.
ExtractNfsRootfs_run(d) ==
    IF ~truth(parameters.nfsrootfs) THEN Outcomes({"none"})
    ELSE IF ~Has(d, DOWNLOAD_ACTION, "nfsrootfs") THEN Outcomes({"KeyError"})
    ELSE Outcomes({"none", "JobError"})

ExtractNfsRootfs_data(d) ==
    IF ~truth(parameters.nfsrootfs) THEN d
    ELSE SetDefault(d, EXTRACT_NFSROOTFS, "nfsroot", EXTRACT_NFSROOTFS)

\* The location is recorded before the internal pipeline is run.
OverlayAction_run(d) == Outcomes({"none"})

OverlayAction_data(d) == SetDefault(d, LAVA_OVERLAY, "location", LAVA_OVERLAY)

MultinodeOverlayAction_run(d) ==
    IF context.protocol # "role" THEN Outcomes({"none"})
    ELSE IF ~Has(d, LAVA_OVERLAY, "location") THEN Outcomes({"RuntimeError"})
    ELSE Outcomes({"none", "RuntimeError"})

MultinodeOverlayAction_data(d) == d

\* ApplyOverlayImage.run: the overlay must be recorded and the directory
\* recorded for the image mounted.
ApplyOverlayImage_run_unmounted(d) ==
    IF Get(d, COMPRESS_OVERLAY, "output") = Absent
    THEN Outcomes({"RuntimeError"})
    ELSE IF ~Has(d, LOOP_MOUNT, "mntdir") THEN Outcomes({"KeyError"})
    ELSE Outcomes({"none", "RuntimeError"})
ApplyOverlayImage_run(d) ==
    IF Get(d, COMPRESS_OVERLAY, "output") = Absent
    THEN Outcomes({"RuntimeError"})
    ELSE IF ~Has(d, LOOP_MOUNT, "mntdir") THEN Outcomes({"KeyError"})
    ELSE IF MOUNT \notin files THEN Outcomes({"RuntimeError"})
    ELSE Outcomes({"none", "RuntimeError"})

ApplyOverlayImage_data(d) == d

ApplyOverlayImage_unpacked(d) == {Get(d, LOOP_MOUNT, "mntdir")}

\* CompressOverlay.run, were an invalid action to return before it looks
\* for the location.
CompressOverlay_run_valid_first(d) ==
    IF errors[COMPRESS_OVERLAY] # {} THEN Outcomes({"none"})
    ELSE IF ~Has(d, LAVA_OVERLAY, "location") \/ LOCATION \notin files
    THEN Outcomes({"RuntimeError"})
    ELSE Outcomes({"none"}) \cup
            {[raises |-> "RuntimeError",
              errors |-> {"Unable to create lava overlay tarball"}]}

\* Without the overlay location, recorded and on the host, it raises; on an
\* invalid action it then returns at once; otherwise the archive is made,
\* or a TarError is appended to errors before RuntimeError is raised.
CompressOverlay_run(d) ==
    IF ~Has(d, LAVA_OVERLAY, "location") \/ LOCATION \notin files
    THEN Outcomes({"RuntimeError"})
    ELSE IF errors[COMPRESS_OVERLAY] # {} THEN Outcomes({"none"})
    ELSE Outcomes({"none"}) \cup
            {[raises |-> "RuntimeError",
              errors |-> {"Unable to create lava overlay tarball"}]}

\* What there is on the host when run() returns.
OverlayAction_files(f) == f \cup {LOCATION}

CompressOverlay_files(f) ==
    IF errors[COMPRESS_OVERLAY] # {} THEN f ELSE f \cup {ARCHIVE}

CompressOverlay_data_unrecorded(d) == d
CompressOverlay_data(d) ==
    IF errors[COMPRESS_OVERLAY] # {} THEN d
    ELSE Set(d, COMPRESS_OVERLAY, "output", COMPRESS_OVERLAY)

ExtractRamdisk_run(d) ==
    IF ~truth(parameters.ramdisk) THEN Outcomes({"none"})
    ELSE IF ~Has(d, DOWNLOAD_ACTION, "ramdisk") THEN Outcomes({"KeyError"})
    ELSE Outcomes({"none", "RuntimeError"})

ExtractRamdisk_data(d) ==
    IF ~truth(parameters.ramdisk) THEN d
    ELSE Set(Set(d, EXTRACT_RAMDISK, "extracted_ramdisk", EXTRACT_RAMDISK),
             EXTRACT_RAMDISK, "ramdisk_file", EXTRACT_RAMDISK)

ExtractModules_run(d) ==
    IF ~truth(parameters.modules) THEN Outcomes({"none"})
    ELSE IF ~truth(parameters.ramdisk) /\ ~truth(parameters.nfsrootfs)
         THEN Outcomes({"RuntimeError"})
    ELSE IF ~truth(parameters.ramdisk) /\ ~Has(d, EXTRACT_NFSROOTFS, "nfsroot")
         THEN Outcomes({"KeyError"})
    ELSE IF truth(parameters.ramdisk)
            /\ ~Has(d, EXTRACT_RAMDISK, "extracted_ramdisk")
         THEN Outcomes({"KeyError"})
    ELSE IF ~Has(d, DOWNLOAD_ACTION, "modules") THEN Outcomes({"KeyError"})
    ELSE Outcomes({"none", "RuntimeError"})

ExtractModules_data(d) == d

\* The directory the overlay is extracted into.
ApplyOverlayTftp_directory(d) ==
    IF is_not_None(parameters.ramdisk) THEN Get(d, EXTRACT_RAMDISK, "extracted_ramdisk")
    ELSE IF is_not_None(parameters.nfsrootfs) THEN Get(d, EXTRACT_NFSROOTFS, "nfsroot")
    ELSE Absent

\* The archive it opens: none when neither image is named.
ApplyOverlayTftp_overlay_file(d) ==
    IF is_not_None(parameters.ramdisk) \/ is_not_None(parameters.nfsrootfs)
    THEN Get(d, COMPRESS_OVERLAY, "output")
    ELSE Absent

\* ApplyOverlayTftp.run, were a ramdisk that is not extracted nothing to
\* apply the overlay to.
ApplyOverlayTftp_run_skips(d) ==
    IF is_not_None(parameters.ramdisk) /\ ~Has(d, EXTRACT_RAMDISK, "extracted_ramdisk")
    THEN Outcomes({"none"})
    ELSE IF ApplyOverlayTftp_overlay_file(d) = Absent
    THEN Outcomes({"ValueError"})
    ELSE IF ApplyOverlayTftp_directory(d) = Absent
    THEN Outcomes({"AttributeError"})
    ELSE Outcomes({"none", "RuntimeError"})

\* The directory of the ramdisk is indexed, that of the nfsrootfs is got;
\* without an overlay file there is nothing to open, without a directory
\* nothing to extract into.
ApplyOverlayTftp_run(d) ==
    IF is_not_None(parameters.ramdisk) /\ ~Has(d, EXTRACT_RAMDISK, "extracted_ramdisk")
    THEN Outcomes({"KeyError"})
    ELSE IF ApplyOverlayTftp_overlay_file(d) = Absent
    THEN Outcomes({"ValueError"})
    ELSE IF ApplyOverlayTftp_directory(d) = Absent
    THEN Outcomes({"AttributeError"})
    ELSE Outcomes({"none", "RuntimeError"})

ApplyOverlayTftp_data(d) == d

ApplyOverlayTftp_unpacked(d) ==
    IF ApplyOverlayTftp_directory(d) = Absent THEN {}
    ELSE {ApplyOverlayTftp_directory(d)}

CompressRamdisk_run(d) ==
    IF ~truth(parameters.ramdisk) THEN Outcomes({"none"})
    ELSE IF ~Has(d, EXTRACT_RAMDISK, "extracted_ramdisk")
         THEN Outcomes({"RuntimeError"})
    ELSE IF ~Has(d, EXTRACT_RAMDISK, "ramdisk_file")
         THEN Outcomes({"RuntimeError"})
    ELSE IF ~Has(d, DOWNLOAD_ACTION, "ramdisk")
         THEN Outcomes({"RuntimeError", "KeyError"})
    ELSE Outcomes({"none", "RuntimeError"})

CompressRamdisk_data_ramdisk_file(d) ==
    IF ~truth(parameters.ramdisk) THEN d
    ELSE Set(d, EXTRACT_RAMDISK, "ramdisk_file", COMPRESS_RAMDISK)
CompressRamdisk_data(d) ==
    IF ~truth(parameters.ramdisk) THEN d
    ELSE Set(d, COMPRESS_RAMDISK, "ramdisk", COMPRESS_RAMDISK)

\* pyocd is run: JobError if the command fails.
MonitorPyOCDAction_run(d) == Outcomes({"none", "JobError"})

\* The result is recorded for the actions after the boot, under the action
\* name 'boot' (with the label 'shared').
MonitorPyOCDAction_data(d) == Set(d, BOOT, "boot-result", MONITOR_PYOCD)

\* The serial connection to the device is made, or it is not.
ConnectDevice_run(d) == Outcomes({"none", "JobError", "InfrastructureError"})

run_outcomes(a, d) ==
    CASE a = EXTRACT_NFSROOTFS -> ExtractNfsRootfs_run(d)
      [] a = LAVA_OVERLAY -> OverlayAction_run(d)
      [] a = MONITOR_PYOCD -> MonitorPyOCDAction_run(d)
      [] a = CONNECT_DEVICE -> ConnectDevice_run(d)
      [] a = MULTINODE_OVERLAY -> MultinodeOverlayAction_run(d)
      [] a = COMPRESS_OVERLAY -> CompressOverlay_run(d)
      [] a = EXTRACT_RAMDISK -> ExtractRamdisk_run(d)
      [] a = EXTRACT_MODULES -> ExtractModules_run(d)
      [] a = APPLY_OVERLAY_TFTP -> ApplyOverlayTftp_run(d)
      [] a = COMPRESS_RAMDISK -> CompressRamdisk_run(d)
      [] a = APPLY_OVERLAY_IMAGE -> ApplyOverlayImage_run(d)
      [] OTHER -> Outcomes({"none"})

run_data(a, d) ==
    CASE a = EXTRACT_NFSROOTFS -> ExtractNfsRootfs_data(d)
      [] a = LAVA_OVERLAY -> OverlayAction_data(d)
      [] a = MONITOR_PYOCD -> MonitorPyOCDAction_data(d)
      [] a = MULTINODE_OVERLAY -> MultinodeOverlayAction_data(d)
      [] a = COMPRESS_OVERLAY -> CompressOverlay_data(d)
      [] a = EXTRACT_RAMDISK -> ExtractRamdisk_data(d)
      [] a = EXTRACT_MODULES -> ExtractModules_data(d)
      [] a = APPLY_OVERLAY_TFTP -> ApplyOverlayTftp_data(d)
      [] a = COMPRESS_RAMDISK -> CompressRamdisk_data(d)
      [] a = APPLY_OVERLAY_IMAGE -> ApplyOverlayImage_data(d)
      [] OTHER -> d

run_unpacked(a, d) ==
    CASE a = APPLY_OVERLAY_TFTP -> ApplyOverlayTftp_unpacked(d)
      [] a = APPLY_OVERLAY_IMAGE -> ApplyOverlayImage_unpacked(d)
      [] OTHER -> {}

\* The entries of the other actions that run() reads, until it returns or
\* raises.
Entry(a, k) == [action |-> a, key |-> k]

MultinodeOverlayAction_reads ==
    IF context.protocol # "role" THEN {}
    ELSE {Entry(LAVA_OVERLAY, "location")}

CompressOverlay_reads == {Entry(LAVA_OVERLAY, "location")}

\* The directory that run() unpacks into: the entry it is read from, if
\* any is.
ExtractModules_root ==
    IF ~truth(parameters.modules) THEN {}
    ELSE IF ~truth(parameters.ramdisk)
         THEN IF ~truth(parameters.nfsrootfs) THEN {}
              ELSE {Entry(EXTRACT_NFSROOTFS, "nfsroot")}
    ELSE {Entry(EXTRACT_RAMDISK, "extracted_ramdisk")}

ExtractModules_reads == ExtractModules_root

ApplyOverlayTftp_root ==
    IF is_not_None(parameters.ramdisk)
    THEN {Entry(EXTRACT_RAMDISK, "extracted_ramdisk")}
    ELSE IF is_not_None(parameters.nfsrootfs)
    THEN {Entry(EXTRACT_NFSROOTFS, "nfsroot")}
    ELSE {}

ApplyOverlayTftp_reads ==
    IF ApplyOverlayTftp_root = {} THEN {}
    ELSE {Entry(COMPRESS_OVERLAY, "output")} \cup ApplyOverlayTftp_root

CompressRamdisk_reads ==
    IF ~truth(parameters.ramdisk) THEN {}
    ELSE {Entry(EXTRACT_RAMDISK, "extracted_ramdisk"),
          Entry(EXTRACT_RAMDISK, "ramdisk_file")}

run_reads(a) ==
    CASE a = MULTINODE_OVERLAY -> MultinodeOverlayAction_reads
      [] a = COMPRESS_OVERLAY -> CompressOverlay_reads
      [] a = EXTRACT_MODULES -> ExtractModules_reads
      [] a = APPLY_OVERLAY_TFTP -> ApplyOverlayTftp_reads
      [] a = COMPRESS_RAMDISK -> CompressRamdisk_reads
      [] OTHER -> {}

\* Whether run() takes the job to have a ramdisk.
ExtractRamdisk_ramdisk == truth(parameters.ramdisk)
ExtractModules_ramdisk == truth(parameters.ramdisk)
ApplyOverlayTftp_ramdisk == is_not_None(parameters.ramdisk)
CompressRamdisk_ramdisk == truth(parameters.ramdisk)

\* dict.pop and the assignment to a key of a dict.
pop(d, key) == [k \in DOMAIN d \ {key} |-> d[k]]
setitem(d, key, value) ==
    [k \in DOMAIN d \cup {key} |-> IF k = key THEN value ELSE d[k]]

\* dict.setdefault.
setdefault(d, key, value) == IF key \in DOMAIN d THEN d ELSE setitem(d, key, value)

\* os.path: a path is the sequence of its names.
join(dir, n) == Append(dir, n)
dirname(p) == SubSeq(p, 1, Len(p) - 1)
basename(p) == p[Len(p)]

\* The directory the dispatcher is started in, the directories that
\* mkdtemp makes, each one new, and the file the download of the ramdisk
\* has left in the directory of the TFTP server.
PWD == <<"pwd">>
TMP == <<"tmp1", "tmp2", "tmp3", "tmp4">>
mkdtemp(n) == <<TMP[n + 1]>>
RAMDISK_FNAME == "ramdisk.cpio"
Download_file == <<"tftp", "initrd.gz">>

Host == [cwd |-> cwd, tmp |-> tmp, paths |-> paths, host |-> host]
File(p, a) == [path |-> p, by |-> a]

\* The directory that run() populates: ExtractNfsRootfs.run a new one,
\* OverlayAction.run the location recorded, after it has recorded a new
\* directory if none was.
ExtractNfsRootfs_populates(h) == mkdtemp(h.tmp)
OverlayAction_populates(h) ==
    setdefault(h.paths, Entry(LAVA_OVERLAY, "location"),
               mkdtemp(h.tmp))[Entry(LAVA_OVERLAY, "location")]

\* What run() does to the host, and to the paths in the store, when it
\* ends as o says.
ExtractNfsRootfs_host_overwrites(o, d, h) ==
    IF ~truth(parameters.nfsrootfs) \/ o.raises = "KeyError" THEN {h}
    ELSE LET nfsroot_dir == ExtractNfsRootfs_populates(h)
         IN  IF o.raises # "none" THEN {[h EXCEPT !.tmp = @ + 1]}
             ELSE {[h EXCEPT
                      !.tmp = @ + 1,
                      !.host = @ \cup {File(nfsroot_dir, EXTRACT_NFSROOTFS)},
                      !.paths = setitem(@, Entry(EXTRACT_NFSROOTFS, "nfsroot"),
                                        nfsroot_dir)]}

\* ExtractNfsRootfs.run: the archive is extracted into a new directory,
\* which is recorded unless a directory is recorded already.
ExtractNfsRootfs_host(o, d, h) ==
    IF ~truth(parameters.nfsrootfs) \/ o.raises = "KeyError" THEN {h}
    ELSE LET nfsroot_dir == ExtractNfsRootfs_populates(h)
         IN  IF o.raises # "none" THEN {[h EXCEPT !.tmp = @ + 1]}
             ELSE {[h EXCEPT
                      !.tmp = @ + 1,
                      !.host = @ \cup {File(nfsroot_dir, EXTRACT_NFSROOTFS)},
                      !.paths = setdefault(@, Entry(EXTRACT_NFSROOTFS, "nfsroot"),
                                           nfsroot_dir)]}

\* OverlayAction.run: a directory is made; the location recorded, that
\* one unless one is recorded already, is populated.
OverlayAction_host(o, d, h) ==
    LET recorded == setdefault(h.paths, Entry(LAVA_OVERLAY, "location"),
                               mkdtemp(h.tmp))
    IN  {[h EXCEPT
            !.tmp = @ + 1,
            !.paths = recorded,
            !.host = @ \cup {File(OverlayAction_populates(h), LAVA_OVERLAY)}]}

\* CompressOverlay.run: a TarError is raised with the location as the
\* working directory, or before it is.
CompressOverlay_host(o, d, h) ==
    IF o.errors = {} THEN {h}
    ELSE {h, [h EXCEPT !.cwd = h.paths[Entry(LAVA_OVERLAY, "location")]]}

\* ExtractRamdisk.run: the ramdisk is unpacked in a directory of a new
\* directory; RuntimeError is raised before the working directory is
\* changed, or after and before it is changed back.
ExtractRamdisk_host(o, d, h) ==
    IF ~truth(parameters.ramdisk) \/ o.raises = "KeyError" THEN {h}
    ELSE LET ramdisk_dir == mkdtemp(h.tmp)
             extracted_ramdisk == join(ramdisk_dir, "ramdisk")
             ramdisk_data == join(ramdisk_dir, RAMDISK_FNAME)
             made == [h EXCEPT !.tmp = @ + 1]
         IN  IF o.raises # "none"
             THEN {made, [made EXCEPT !.cwd = extracted_ramdisk]}
             ELSE {[made EXCEPT
                      !.paths =
                         setitem(setitem(@, Entry(EXTRACT_RAMDISK,
                                                  "extracted_ramdisk"),
                                         extracted_ramdisk),
                                 Entry(EXTRACT_RAMDISK, "ramdisk_file"),
                                 ramdisk_data),
                      !.host = @ \cup {File(extracted_ramdisk, EXTRACT_RAMDISK),
                                       File(ramdisk_data, EXTRACT_RAMDISK)}]}

\* The path that CompressRamdisk.run records, were it that of the file
\* after it is moved.
CompressRamdisk_recorded_moved(final_file, tftp_dir) ==
    join(tftp_dir, basename(final_file))

\* The path that CompressRamdisk.run records.
CompressRamdisk_recorded(final_file, tftp_dir) == final_file

\* CompressRamdisk.run: the ramdisk is archived and compressed where it
\* was unpacked, the file is moved to the directory of the TFTP server and
\* its path is recorded.  RuntimeError is raised in the directory of the
\* ramdisk, in the directory above it, or after the working directory is
\* changed back.
CompressRamdisk_host(o, d, h) ==
    IF \/ ~truth(parameters.ramdisk)
       \/ ~Has(d, EXTRACT_RAMDISK, "extracted_ramdisk")
       \/ ~Has(d, EXTRACT_RAMDISK, "ramdisk_file")
    THEN {h}
    ELSE LET ramdisk_dir == h.paths[Entry(EXTRACT_RAMDISK, "extracted_ramdisk")]
             ramdisk_data == h.paths[Entry(EXTRACT_RAMDISK, "ramdisk_file")]
             final_file == join(dirname(ramdisk_data), "ramdisk.cpio.gz")
             tftp_dir == dirname(Download_file)
             gzip == {f \in h.host : f.path # ramdisk_data}
         IN  IF o.raises = "none"
             THEN {[h EXCEPT
                      !.host = gzip \cup
                                  {File(join(tftp_dir, basename(final_file)),
                                        COMPRESS_RAMDISK)},
                      !.paths = setitem(@, Entry(COMPRESS_RAMDISK, "ramdisk"),
                                        CompressRamdisk_recorded(final_file,
                                                                 tftp_dir))]}
             ELSE IF o.raises = "KeyError"
             THEN {[h EXCEPT !.host = gzip \cup
                                         {File(final_file, COMPRESS_RAMDISK)}]}
             ELSE {[h EXCEPT !.cwd = ramdisk_dir],
                   [h EXCEPT !.cwd = dirname(ramdisk_data)],
                   [h EXCEPT !.host = gzip \cup
                                         {File(final_file, COMPRESS_RAMDISK)}]}

run_host(a, o, d, h) ==
    CASE a = EXTRACT_NFSROOTFS -> ExtractNfsRootfs_host(o, d, h)
      [] a = LAVA_OVERLAY -> OverlayAction_host(o, d, h)
      [] a = COMPRESS_OVERLAY -> CompressOverlay_host(o, d, h)
      [] a = EXTRACT_RAMDISK -> ExtractRamdisk_host(o, d, h)
      [] a = COMPRESS_RAMDISK -> CompressRamdisk_host(o, d, h)
      [] OTHER -> {h}

\* The host before a job is run, and the host and the paths that go with
\* a store that a run before this one has left.
NoHost ==
    /\ cwd = PWD
    /\ tmp = 0
    /\ paths = <<>>
    /\ host = {}

Earlier ==
    [e \in {Entry(EXTRACT_NFSROOTFS, "nfsroot"),
            Entry(LAVA_OVERLAY, "location"),
            Entry(EXTRACT_RAMDISK, "extracted_ramdisk"),
            Entry(EXTRACT_RAMDISK, "ramdisk_file")} |->
        IF e.action = EXTRACT_RAMDISK
        THEN join(<<"tmp0">>, IF e.key = "ramdisk_file" THEN RAMDISK_FNAME
                              ELSE "ramdisk")
        ELSE <<e.key>>]

EarlierRun ==
    /\ cwd = PWD
    /\ tmp = 0
    /\ paths = [e \in {x \in DOMAIN Earlier : Has(data, x.action, x.key)} |->
                   Earlier[e]]
    /\ host = {File(Earlier[e], e.action) :
                 e \in {x \in DOMAIN Earlier : Has(data, x.action, x.key)}}

run_files(a, f) ==
    CASE a = LAVA_OVERLAY -> OverlayAction_files(f)
      [] a = COMPRESS_OVERLAY -> CompressOverlay_files(f)
      [] OTHER -> f

\* The connection a job is given when it follows another, and the one
\* ConnectDevice makes to the device.
SHELL == 1
DEVICE == 2

\* What run() returns, given the connection it received, on each path that
\* does not raise.
ExtractNfsRootfs_returns(c) == c
MultinodeOverlayAction_returns(c) == c
CompressOverlay_returns(c) == c
ExtractRamdisk_returns_nothing(c) == None
ExtractRamdisk_returns(c) == c
ExtractModules_returns(c) == c
ApplyOverlayTftp_returns(c) == c
ApplyOverlayImage_returns(c) == c
CompressRamdisk_returns(c) == c
MonitorPyOCDAction_returns(c) == c
ConnectDevice_returns(c) == DEVICE

\* An action with an internal pipeline hands it the connection it received.
run_returns(a, c) ==
    CASE a = EXTRACT_NFSROOTFS -> ExtractNfsRootfs_returns(c)
      [] a = MONITOR_PYOCD -> MonitorPyOCDAction_returns(c)
      [] a = CONNECT_DEVICE -> ConnectDevice_returns(c)
      [] a = MULTINODE_OVERLAY -> MultinodeOverlayAction_returns(c)
      [] a = COMPRESS_OVERLAY -> CompressOverlay_returns(c)
      [] a = EXTRACT_RAMDISK -> ExtractRamdisk_returns(c)
      [] a = EXTRACT_MODULES -> ExtractModules_returns(c)
      [] a = APPLY_OVERLAY_TFTP -> ApplyOverlayTftp_returns(c)
      [] a = APPLY_OVERLAY_IMAGE -> ApplyOverlayImage_returns(c)
      [] a = COMPRESS_RAMDISK -> CompressRamdisk_returns(c)
      [] OTHER -> c

\* Action.run is entered for the next child of the pipeline on top of the
\* stack; an action with an internal pipeline runs it.  An exception ends
\* the run of every pipeline it goes up through: no sibling is run after
\* it.  It ends the job unless the run() of a RetryAction catches it.
run ==
    /\ phase = "run"
    /\ exception = "none"
    /\ Top.i <= Len(actions[Top.parent])
    /\ LET a == actions[Top.parent][Top.i]
       IN  /\ ran' = Append(ran, a)
           /\ \E o \in run_outcomes(a, data) :
                 /\ exception' = o.raises
                 /\ errors' = [errors EXCEPT ![a] = @ \cup o.errors]
                 /\ IF o.raises = "none"
                    THEN /\ stack' = Call(a)
                         /\ phase' = phase
                         /\ connection' = run_returns(a, connection)
                         /\ data' = run_data(a, data)
                         /\ unpacked' = unpacked \cup run_unpacked(a, data)
                         /\ files' = run_files(a, files)
                    ELSE /\ stack' = Unwind(stack)
                         /\ phase' = IF Unwind(stack) = <<>> THEN "failed"
                                     ELSE phase
                         /\ connection' = connection
                         /\ data' = data
                         /\ unpacked' = unpacked
                         /\ files' = files
                 /\ \E h \in run_host(a, o, data, Host) :
                       /\ cwd' = h.cwd
                       /\ tmp' = h.tmp
                       /\ paths' = h.paths
                       /\ host' = h.host
    /\ UNCHANGED <<parameters, context, actions, validated>>
    /\ UNCHANGED retry
    /\ UNCHANGED <<schedVars, targetVars, jobVars, releaseVars, serviceVars, clockVars>>
    /\ UNCHANGED fields

\* run_actions of the internal pipeline is over and run() returns; for a
\* RetryAction the attempt has succeeded.
run_return ==
    /\ phase = "run"
    /\ exception = "none"
    /\ Top.i > Len(actions[Top.parent])
    /\ Top.parent # JOB
    /\ stack' = Returned
    /\ retry' = IF Top.parent \in RetryActions
                THEN [retry EXCEPT !.tried = Append(@, "none")]
                ELSE retry
    /\ UNCHANGED <<parameters, context, actions, phase, validated, ran, errors,
                   exception>>
    /\ UNCHANGED <<connection, data, unpacked, files, fsVars>>
    /\ UNCHANGED <<schedVars, targetVars, jobVars, releaseVars, serviceVars, clockVars>>
    /\ UNCHANGED fields

\* The errors after which a RetryAction runs its pipeline again.
Retryable_any(e) == TRUE
Retryable(e) == e = "JobError"

\* The attempts a RetryAction makes at most.
AttemptsLeft_one_more == Len(retry.tried) < retry.max_retries
AttemptsLeft == Len(retry.tried) + 1 < retry.max_retries

\* RetryAction.run has caught the exception of its internal pipeline: after
\* a retryable error it runs the pipeline again while attempts remain, and
\* any other error, or the last attempt's, goes up as a fatal one.
RetryAction_except ==
    /\ phase = "run"
    /\ exception # "none"
    /\ Top.parent \in RetryActions
    /\ retry' = [retry EXCEPT !.tried = Append(@, exception)]
    /\ IF Retryable(exception) /\ AttemptsLeft
       THEN /\ stack' = [stack EXCEPT ![Len(stack)].i = 1]
            /\ exception' = "none"
            /\ phase' = phase
       ELSE LET rest == Unwind(SubSeq(stack, 1, Len(stack) - 1))
            IN  /\ stack' = rest
                /\ exception' = exception
                /\ phase' = IF rest = <<>> THEN "failed" ELSE phase
    /\ UNCHANGED <<parameters, context, actions, validated, ran, errors>>
    /\ UNCHANGED <<connection, data, unpacked, files, fsVars>>
    /\ UNCHANGED <<schedVars, targetVars, jobVars, releaseVars, serviceVars, clockVars>>
    /\ UNCHANGED fields

\* The last action of the job's pipeline has returned.
run_done ==
    /\ phase = "run"
    /\ exception = "none"
    /\ Top.parent = JOB
    /\ Top.i > Len(actions[JOB])
    /\ phase' = "done"
    /\ stack' = <<>>
    /\ UNCHANGED <<parameters, context, actions, validated, ran, errors,
                   exception>>
    /\ UNCHANGED runVars
    /\ UNCHANGED <<schedVars, targetVars, jobVars, releaseVars, serviceVars, clockVars>>
    /\ UNCHANGED fields

\* populate() of the job's deploy action has returned: the tree is built,
\* and Job.validate starts on the job's pipeline.
build_done ==
    /\ phase = "build"
    /\ stack = <<>>
    /\ phase' = "validate"
    /\ stack' = <<[parent |-> JOB, i |-> 1]>>
    /\ UNCHANGED <<parameters, context, actions, validated, ran, errors,
                   exception>>
    /\ UNCHANGED runVars
    /\ UNCHANGED <<schedVars, targetVars, jobVars, releaseVars, serviceVars, clockVars>>
    /\ UNCHANGED fields

\* Before the pipeline is built: no action added, validated or run.
NotBuilt ==
    /\ actions = [a \in AllActionNames \cup {JOB} |-> <<>>]
    /\ phase = "build"
    /\ stack = <<[parent |-> JOB, i |-> 1]>>
    /\ validated = <<>>
    /\ ran = <<>>
    /\ errors = [a \in AllActionNames |-> {}]
    /\ exception = "none"
    /\ fields = Constructed

\* A device that boots with pyocd and a stanza that asks for it.
PyOCDBoot ==
    /\ device = [methods |-> {"pyocd"}, board_id |-> "0240000026334e45",
                 command |-> "pyocd-flashtool"]
    /\ stanza = [method |-> "monitor"]

\* Before anything is run: no attempt made, no connection, no data.
NotRun ==
    /\ retry = [max_retries |-> MaxRetries, tried |-> <<>>]
    /\ connection = None
    /\ data = Downloaded
    /\ unpacked = {}
    /\ files = {}
    /\ NoHost
    /\ procs = <<>>
    /\ spawn_timeout = <<>>
    /\ PyOCDBoot

\* No job is dispatched: no pipeline is built, and there is nothing of a
\* job, of its device or of its run.
NoDeployment ==
    /\ parameters = <<>>
    /\ context = <<>>
    /\ actions = <<>>
    /\ phase = "build"
    /\ stack = <<>>
    /\ validated = <<>>
    /\ ran = <<>>
    /\ errors = <<>>
    /\ exception = "none"
    /\ fields = <<>>
    /\ retry = <<>>
    /\ connection = None
    /\ data = {}
    /\ unpacked = {}
    /\ files = {}
    /\ NoHost
    /\ procs = <<>>
    /\ spawn_timeout = <<>>
    /\ device = <<>>
    /\ stanza = <<>>

(***************************************************************************)
(* Specifications of the job source.                                       *)
(***************************************************************************)

\* The worker threads and the history, before any call.
\* No action is in progress, and no timeout is looked at.
NotStarted ==
    /\ timeouts = <<>>
    /\ now = 0
    /\ path = <<>>

\* BoardSet.__init__: no board, and the looping call not started.
NoCall == <<0>>
BoardSet_init ==
    /\ boards = <<>>
    /\ board_objs = <<>>
    /\ update_boards_call = "new"
    /\ board_cfgs = NoCall

\* The release script is not run.
NoRelease ==
    /\ options = <<>>
    /\ at = "done"
    /\ commands = <<>>
    /\ observed = {}

InitThreads ==
    /\ txDev = [p \in Procs |-> NoDevWrite]
    /\ txJob = [p \in Procs |-> NoJobWrite]
    /\ pc = [p \in Procs |-> "idle"]
    /\ board = [p \in Procs |-> 1]
    /\ selJob = [p \in Procs |-> None]
    /\ result = [p \in Procs |-> NoResult]
    /\ retried = [p \in Procs |-> FALSE]
    /\ boardList = {}

\* A database as the scheduler leaves it between jobs: every board idle,
\* every job queued.
Init ==
    /\ dev = [d \in Devices |-> [status |-> IDLE, current_job |-> None]]
    /\ job = [j \in Jobs |-> [status |-> SUBMITTED]]
    /\ InitThreads
    /\ NotStarted
    /\ BoardSet_init
    /\ NoRelease
    /\ NoDeployment

\* One statement of one call in progress.
Statement(p) ==
    \/ GetJob_ReadDevice(p)
    \/ GetJob_QueryJobs(p)
    \/ GetJob_SaveDevice(p)
    \/ GetJob_SaveJob(p)
    \/ GetJob_Commit(p)
    \/ Completed_ReadDevice(p)
    \/ Completed_GetJob(p)
    \/ Completed_SaveDevice(p)
    \/ Completed_SaveJob(p)
    \/ Completed_Commit(p)

Next ==
    \E p \in Procs :
        \/ GetBoardList(p)
        \/ \E b \in Devices : GetJobForBoard(p, b)
        \/ \E b \in Devices : JobCompleted(p, b)
        \/ Statement(p)

Spec == Init /\ [][Next]_vars


\* The rows the schema admits: the daemon starts on the database it finds,
\* which the web application and its admin pages write too.  current_job is
\* unique among the devices (NULL apart).
SchemaAdmits ==
    /\ dev \in [Devices -> [status : {IDLE, DEV_RUNNING},
                            current_job : Jobs \cup {None}]]
    /\ \A d1, d2 \in Devices :
          d1 # d2 /\ dev[d1].current_job # None
             => dev[d1].current_job # dev[d2].current_job
    /\ job \in [Jobs -> [status : {SUBMITTED, RUNNING, COMPLETE}]]

InitDb ==
    SchemaAdmits /\ InitThreads /\ NotStarted /\ BoardSet_init /\ NoRelease
       /\ NoDeployment

\* The claim calls alone, on any such database.
NextClaim ==
    \E p \in Procs :
        \/ \E b \in Devices : GetJobForBoard(p, b)
        \/ GetJob_ReadDevice(p)
        \/ GetJob_QueryJobs(p)
        \/ GetJob_SaveDevice(p)
        \/ GetJob_SaveJob(p)
        \/ GetJob_Commit(p)

\* Any such database on which no job is complete: getJobForBoard reads
\* the jobs that are submitted, and no other.
InitClaim == InitDb /\ \A j \in Jobs : job[j].status # COMPLETE

SpecDb == InitClaim /\ [][NextClaim]_vars


\* The jobCompleted calls alone, on any such database.
NextCompleted ==
    \E p \in Procs :
        \/ \E b \in Devices : JobCompleted(p, b)
        \/ Completed_ReadDevice(p)
        \/ Completed_GetJob(p)
        \/ Completed_SaveDevice(p)
        \/ Completed_SaveJob(p)
        \/ Completed_Commit(p)

\* Any such database on which no job is complete yet.
InitCompleted == InitDb /\ \A j \in Jobs : job[j].status # COMPLETE

SpecCompleted == InitCompleted /\ [][NextCompleted]_vars

\* PostgreSQL queues the waiters of a row lock, so a statement that can be
\* executed again and again is executed: every call in progress goes on.
FairSpecDb == SpecDb /\ \A p \in Procs : SF_vars(Statement(p))

(***************************************************************************)
(* Specification of the pipeline.                                          *)
(***************************************************************************)

\* Any deploy parameters, on any host.
InitPipeline ==
    /\ parameters \in [nfsrootfs : ParameterValues, ramdisk : ParameterValues,
                       modules : ParameterValues]
    /\ context \in [exportfs : BOOLEAN, mkimage : BOOLEAN, scripts : BOOLEAN,
                    download_action : {"absent", "no file", "file"},
                    protocol : {"absent", "no role", "role"}]
    /\ NotBuilt
    /\ NotRun
    /\ dev = [d \in Devices |-> [status |-> IDLE, current_job |-> None]]
    /\ job = [j \in Jobs |-> [status |-> SUBMITTED]]
    /\ InitThreads
    /\ NotStarted
    /\ BoardSet_init
    /\ NoRelease

NextPipeline ==
    \/ add_action
    \/ populate_return
    \/ build_done
    \/ validate
    \/ validate_return
    \/ validate_done
    \/ run
    \/ run_return
    \/ run_done

SpecPipeline == InitPipeline /\ [][NextPipeline]_vars

(***************************************************************************)
(* Specification of the construction of the tftp deploy.                   *)
(***************************************************************************)

\* The pipeline of the job has added tftp-deploy and calls its populate:
\* any deploy parameters, on any host.
InitTftp ==
    /\ parameters \in [nfsrootfs : ParameterValues, ramdisk : ParameterValues,
                       modules : ParameterValues]
    /\ context \in [exportfs : BOOLEAN, mkimage : BOOLEAN, scripts : BOOLEAN,
                    download_action : {"absent", "no file", "file"},
                    protocol : {"absent", "no role", "role"}]
    /\ actions = [a \in AllActionNames \cup TftpActionNames \cup {JOB} |->
                    IF a = JOB THEN <<TFTP_DEPLOY>> ELSE <<>>]
    /\ phase = "build"
    /\ stack = <<[parent |-> JOB, i |-> 1], [parent |-> TFTP_DEPLOY, i |-> 1]>>
    /\ validated = <<>>
    /\ ran = <<>>
    /\ errors = [a \in AllActionNames \cup TftpActionNames |-> {}]
    /\ exception = "none"
    /\ fields = Constructed
    /\ NotRun
    /\ dev = [d \in Devices |-> [status |-> IDLE, current_job |-> None]]
    /\ job = [j \in Jobs |-> [status |-> SUBMITTED]]
    /\ InitThreads
    /\ NotStarted
    /\ BoardSet_init
    /\ NoRelease

NextTftp ==
    \/ add_action
    \/ populate_return
    \/ build_done

SpecTftp == InitTftp /\ [][NextTftp]_vars

(***************************************************************************)
(* Specification of the validation and run of a job of one action.         *)
(***************************************************************************)

\* The pipeline of the job holds the deploy or the boot, built: any deploy
\* parameters, any host, any device that the boot accepts.
InitValidate ==
    /\ parameters \in [nfsrootfs : ParameterValues, ramdisk : ParameterValues,
                       modules : ParameterValues]
    /\ context \in [exportfs : BOOLEAN, mkimage : BOOLEAN, scripts : BOOLEAN,
                    download_action : {"absent", "no file", "file"},
                    protocol : {"absent", "no role", "role"}]
    /\ \E top \in {PREPARE_TFTP_OVERLAY, BOOT_PYOCD_IMAGE} :
          actions = [a \in AllActionNames \cup {JOB} |->
                        IF a = JOB THEN <<top>> ELSE populate(a)]
    /\ phase = "validate"
    /\ stack = <<[parent |-> JOB, i |-> 1]>>
    /\ validated = <<>>
    /\ ran = <<>>
    /\ errors = [a \in AllActionNames |-> {}]
    /\ exception = "none"
    /\ fields = Constructed
    /\ retry = [max_retries |-> MaxRetries, tried |-> <<>>]
    /\ connection = None
    /\ data = Downloaded
    /\ unpacked = {}
    /\ files = {}
    /\ NoHost
    /\ procs = <<>>
    /\ spawn_timeout = <<>>
    /\ device \in [methods : {{"pyocd"}},
                   board_id : {"0000000000", "0240000026334e45"},
                   command : {"pyocd-flashtool", NOT_INSTALLED}]
    /\ stanza = [method |-> "monitor"]
    /\ dev = [d \in Devices |-> [status |-> IDLE, current_job |-> None]]
    /\ job = [j \in Jobs |-> [status |-> SUBMITTED]]
    /\ InitThreads
    /\ NotStarted
    /\ BoardSet_init
    /\ NoRelease

NextValidate ==
    \/ validate
    \/ validate_return
    \/ validate_done
    \/ run
    \/ run_return
    \/ run_done

SpecValidate == InitValidate /\ [][NextValidate]_vars

(***************************************************************************)
(* Specification of the run of a built pipeline.                           *)
(***************************************************************************)

\* The pipeline of a job that deploys over TFTP and boots with pyocd, as
\* populate() builds it.
Built ==
    [a \in AllActionNames \cup {JOB} |->
        IF a = JOB THEN <<PREPARE_TFTP_OVERLAY, BOOT_PYOCD_IMAGE>>
        ELSE populate(a)]

\* run_actions is called on the built pipeline, no action of which has an
\* error: any deploy parameters, any max_retries for the RetryAction.
RunOfBuilt ==
    /\ parameters \in [nfsrootfs : ParameterValues, ramdisk : ParameterValues,
                       modules : ParameterValues]
    /\ context = [exportfs |-> TRUE, mkimage |-> TRUE, scripts |-> TRUE,
                  download_action |-> "file", protocol |-> "absent"]
    /\ actions = Built
    /\ phase = "run"
    /\ stack = <<[parent |-> JOB, i |-> 1]>>
    /\ validated = <<>>
    /\ ran = <<>>
    /\ errors = [a \in AllActionNames |-> {}]
    /\ exception = "none"
    /\ retry \in [max_retries : 1..MaxRetries, tried : {<<>>}]
    /\ connection \in {None, SHELL}
    /\ data = Downloaded
    /\ unpacked = {}
    /\ files = {}
    /\ NoHost
    /\ procs = <<>>
    /\ spawn_timeout = <<>>
    /\ PyOCDBoot
    /\ fields = Validated

InitRun ==
    /\ RunOfBuilt
    /\ dev = [d \in Devices |-> [status |-> IDLE, current_job |-> None]]
    /\ job = [j \in Jobs |-> [status |-> SUBMITTED]]
    /\ InitThreads
    /\ NotStarted
    /\ BoardSet_init
    /\ NoRelease

NextRun ==
    \/ run
    \/ run_return
    \/ RetryAction_except
    \/ run_done

SpecRun == InitRun /\ [][NextRun]_vars

(***************************************************************************)
(* Specification of the run of one action on any data store.               *)
(***************************************************************************)

\* The actions without an internal pipeline.
Leaves ==
    {EXTRACT_NFSROOTFS, MULTINODE_OVERLAY, COMPRESS_OVERLAY, EXTRACT_RAMDISK,
     EXTRACT_MODULES, APPLY_OVERLAY_TFTP, COMPRESS_RAMDISK, MONITOR_PYOCD,
     APPLY_OVERLAY_IMAGE}

\* The entries the actions read.
Entries ==
    {[action |-> DOWNLOAD_ACTION, key |-> k, value |-> DOWNLOAD_ACTION] :
        k \in {"nfsrootfs", "ramdisk", "modules"}} \cup
    {[action |-> LAVA_OVERLAY, key |-> "location", value |-> LAVA_OVERLAY],
     [action |-> LOOP_MOUNT, key |-> "mntdir", value |-> LOOP_MOUNT],
     [action |-> COMPRESS_OVERLAY, key |-> "output",
      value |-> COMPRESS_OVERLAY],
     [action |-> EXTRACT_NFSROOTFS, key |-> "nfsroot",
      value |-> EXTRACT_NFSROOTFS],
     [action |-> EXTRACT_RAMDISK, key |-> "extracted_ramdisk",
      value |-> EXTRACT_RAMDISK],
     [action |-> EXTRACT_RAMDISK, key |-> "ramdisk_file",
      value |-> EXTRACT_RAMDISK]}

\* run() of one action is called, as a test calls it, with any parameters
\* and any content of the data store.  No action compares 'modules' with
\* None: given empty it is as not given.  Only compress-overlay looks at
\* its errors, only the overlay actions at the location on the host and
\* only apply-overlay-image at the mount.
InitAction ==
    /\ parameters \in [nfsrootfs : ParameterValues, ramdisk : ParameterValues,
                       modules : {Absent, IMAGE}]
    /\ context = [exportfs |-> TRUE, mkimage |-> TRUE, scripts |-> TRUE,
                  download_action |-> "file", protocol |-> "role"]
    /\ \E a \in Leaves :
          actions = [p \in AllActionNames \cup {JOB} |->
                        IF p = JOB THEN <<a>> ELSE <<>>]
    /\ phase = "run"
    /\ stack = <<[parent |-> JOB, i |-> 1]>>
    /\ validated = <<>>
    /\ ran = <<>>
    /\ \E e \in (IF actions[JOB] = <<COMPRESS_OVERLAY>>
                 THEN {{}, {"invalid"}} ELSE {{}}) :
          errors = [a \in AllActionNames |->
                       IF a = COMPRESS_OVERLAY THEN e ELSE {}]
    /\ exception = "none"
    /\ retry = [max_retries |-> MaxRetries, tried |-> <<>>]
    /\ connection = SHELL
    /\ data \in SUBSET Entries
    /\ unpacked = {}
    /\ files \in SUBSET (CASE actions[JOB] = <<APPLY_OVERLAY_IMAGE>> -> {MOUNT}
                            [] actions[JOB] \in {<<COMPRESS_OVERLAY>>,
                                                 <<MULTINODE_OVERLAY>>}
                                  -> {LOCATION}
                            [] OTHER -> {})
    /\ EarlierRun
    /\ PyOCDBoot
    /\ fields = Validated
    /\ procs = <<>>
    /\ spawn_timeout = <<>>
    /\ dev = [d \in Devices |-> [status |-> IDLE, current_job |-> None]]
    /\ job = [j \in Jobs |-> [status |-> SUBMITTED]]
    /\ InitThreads
    /\ NotStarted
    /\ BoardSet_init
    /\ NoRelease

NextAction ==
    \/ run
    \/ run_return
    \/ run_done

SpecAction == InitAction /\ [][NextAction]_vars

(***************************************************************************)
(* Specification of a job from its run to its completion in the database.  *)
(***************************************************************************)

\* The job the dispatcher runs: job 1, bound to board 1 by getJobForBoard.
InitJob ==
    /\ RunOfBuilt
    /\ dev = [d \in Devices |->
                 IF d = 1 THEN [status |-> DEV_RUNNING, current_job |-> 1]
                 ELSE [status |-> IDLE, current_job |-> None]]
    /\ job = [j \in Jobs |->
                 [status |-> IF j = 1 THEN RUNNING ELSE SUBMITTED]]
    /\ InitThreads
    /\ NotStarted
    /\ BoardSet_init
    /\ NoRelease

\* The scheduler is told that the dispatcher has ended, whatever the run
\* came to: jobCompleted(board_name, log) has no argument for the outcome.
Board_jobCompleted ==
    /\ phase \in {"done", "failed"}
    /\ dev[1].status = DEV_RUNNING
    /\ \E p \in Procs : JobCompleted(p, 1)

NextJob ==
    \/ run
    \/ run_return
    \/ RetryAction_except
    \/ run_done
    \/ Board_jobCompleted
    \/ \E p \in Procs :
          \/ Completed_ReadDevice(p)
          \/ Completed_GetJob(p)
          \/ Completed_SaveDevice(p)
          \/ Completed_SaveJob(p)
          \/ Completed_Commit(p)

SpecJob == InitJob /\ [][NextJob]_vars

(***************************************************************************)
(* Specification of the selection and construction of the boot.            *)
(***************************************************************************)

\* Any device and any boot stanza: the methods the device boots with, its
\* board_id if it has one, the method the stanza asks for if it names one.
InitSelect ==
    /\ device \in [methods : SUBSET {"pyocd", "u-boot", "cmsis-dap"},
                   board_id : {Absent, "0000000000", "0240000026334e45"},
                   command : {"pyocd-flashtool", NOT_INSTALLED}]
    /\ stanza \in [method : {Absent, "monitor", "minimal", "pyocd"}]
    /\ parameters = [nfsrootfs |-> Absent, ramdisk |-> Absent, modules |-> Absent]
    /\ context = [exportfs |-> TRUE, mkimage |-> TRUE, scripts |-> TRUE,
                  download_action |-> "file", protocol |-> "absent"]
    /\ actions = [a \in AllActionNames \cup {JOB} |-> <<>>]
    /\ phase = "select"
    /\ stack = <<>>
    /\ validated = <<>>
    /\ ran = <<>>
    /\ errors = [a \in AllActionNames |-> {}]
    /\ exception = "none"
    /\ fields = Constructed
    /\ retry = [max_retries |-> MaxRetries, tried |-> <<>>]
    /\ connection = None
    /\ data = {}
    /\ unpacked = {}
    /\ files = {}
    /\ NoHost
    /\ procs = <<>>
    /\ spawn_timeout = <<>>
    /\ dev = [d \in Devices |-> [status |-> IDLE, current_job |-> None]]
    /\ job = [j \in Jobs |-> [status |-> SUBMITTED]]
    /\ InitThreads
    /\ NotStarted
    /\ BoardSet_init
    /\ NoRelease

NextSelect ==
    \/ select
    \/ add_action
    \/ populate_return
    \/ build_done

SpecSelect == InitSelect /\ [][NextSelect]_vars

(***************************************************************************)
(* Specification of the deadlines down the pipeline.                       *)
(***************************************************************************)

Min(x, y) == IF x <= y THEN x ELSE y

\* The deadline of an action, were its own timeout all that counts.
Deadline_own(parent_deadline, t, timeout) == t + timeout

\* The deadline an action that starts at t runs under, given the deadline
\* of its parent; for a RetryAction, the deadline of an attempt that
\* starts at t.
Deadline(parent_deadline, t, timeout) == Min(parent_deadline, t + timeout)

\* The actions whose timeout the job sets, to the shortest.
TimedActions ==
    {JOB, PREPARE_TFTP_OVERLAY, LAVA_OVERLAY, BOOT_PYOCD_IMAGE,
     BOOT_PYOCD_RETRY, MONITOR_PYOCD}

Last == path[Len(path)]

\* The job starts: its deadline is its own timeout from now.
Job_run ==
    /\ path = <<>>
    /\ path' = <<[action |-> JOB, started |-> now,
                  deadline |-> now + timeouts[JOB], attempt |-> 1]>>
    /\ UNCHANGED <<timeouts, now>>
    /\ UNCHANGED <<schedVars, pipeVars, targetVars, jobVars, releaseVars, serviceVars>>

\* The pipeline of the action in progress runs one of its children, with
\* the deadline of the action as its parent's.
Pipeline_run_actions ==
    /\ path # <<>>
    /\ \E a \in Range(Built[Last.action]) :
          path' = Append(path,
                    [action |-> a, started |-> now,
                     deadline |-> Deadline(Last.deadline, now, timeouts[a]),
                     attempt |-> 1])
    /\ UNCHANGED <<timeouts, now>>
    /\ UNCHANGED <<schedVars, pipeVars, targetVars, jobVars, releaseVars, serviceVars>>

\* The RetryAction in progress, whose internal pipeline has failed, makes
\* its next attempt: the deadline of the attempt is computed anew from the
\* deadline of its parent.
RetryAction_attempt ==
    /\ Len(path) > 1
    /\ Last.action \in RetryActions
    /\ Last.attempt < retry.max_retries
    /\ path' = [path EXCEPT ![Len(path)] =
                  [action |-> Last.action, started |-> now,
                   deadline |-> Deadline(path[Len(path) - 1].deadline, now,
                                         timeouts[Last.action]),
                   attempt |-> Last.attempt + 1]]
    /\ UNCHANGED <<timeouts, now>>
    /\ UNCHANGED <<schedVars, pipeVars, targetVars, jobVars, releaseVars, serviceVars>>

\* The action in progress returns or raises.
Action_return ==
    /\ Len(path) > 1
    /\ path' = SubSeq(path, 1, Len(path) - 1)
    /\ UNCHANGED <<timeouts, now>>
    /\ UNCHANGED <<schedVars, pipeVars, targetVars, jobVars, releaseVars, serviceVars>>

\* Time passes.
Tick ==
    /\ now < MaxTime
    /\ now' = now + 1
    /\ UNCHANGED <<timeouts, path>>
    /\ UNCHANGED <<schedVars, pipeVars, targetVars, jobVars, releaseVars, serviceVars>>

\* The built pipeline of a job, at any time, with any of the timeouts set.
InitDeadline ==
    /\ parameters = [nfsrootfs |-> IMAGE, ramdisk |-> IMAGE, modules |-> IMAGE]
    /\ context = [exportfs |-> TRUE, mkimage |-> TRUE, scripts |-> TRUE,
                  download_action |-> "file", protocol |-> "absent"]
    /\ actions = Built
    /\ phase = "run"
    /\ stack = <<[parent |-> JOB, i |-> 1]>>
    /\ validated = <<>>
    /\ ran = <<>>
    /\ errors = [a \in AllActionNames |-> {}]
    /\ exception = "none"
    /\ NotRun
    /\ fields = Validated
    /\ dev = [d \in Devices |-> [status |-> IDLE, current_job |-> None]]
    /\ job = [j \in Jobs |-> [status |-> SUBMITTED]]
    /\ txDev = [p \in Procs |-> NoDevWrite]
    /\ txJob = [p \in Procs |-> NoJobWrite]
    /\ pc = [p \in Procs |-> "idle"]
    /\ board = [p \in Procs |-> 1]
    /\ selJob = [p \in Procs |-> None]
    /\ result = [p \in Procs |-> NoResult]
    /\ retried = [p \in Procs |-> FALSE]
    /\ boardList = {}
    /\ \E short \in SUBSET TimedActions :
          timeouts = [a \in AllActionNames \cup {JOB} |->
                        IF a \in short THEN 1 ELSE MaxTimeout]
    /\ now = 0
    /\ path = <<>>
    /\ BoardSet_init
    /\ NoRelease

NextDeadline ==
    \/ Job_run
    \/ Pipeline_run_actions
    \/ RetryAction_attempt
    \/ Action_return
    \/ Tick

SpecDeadline == InitDeadline /\ [][NextDeadline]_vars

(***************************************************************************)
(* Specification of the power operations of the QEMU target.               *)
(***************************************************************************)

\* The timeout that power_on gives logging_spawn: None, no timeout.
logging_spawn_timeout == Absent

\* QEMUTarget.power_on: a qemu is spawned and returned.
power_on ==
    /\ Len(procs) < MaxSpawned
    /\ procs' = Append(procs, "open")
    /\ spawn_timeout' = Append(spawn_timeout, logging_spawn_timeout)
    /\ UNCHANGED <<schedVars, pipeVars, jobVars, releaseVars, serviceVars, clockVars>>

\* QEMUTarget.power_off(proc): the process given, if one is given, is
\* closed.  The caller gives None or a process that power_on returned.
power_off ==
    /\ \E proc \in {None} \cup (1..Len(procs)) :
          IF proc # None
          THEN procs' = [procs EXCEPT ![proc] = "closed"]
          ELSE procs' = procs
    /\ UNCHANGED spawn_timeout
    /\ UNCHANGED <<schedVars, pipeVars, jobVars, releaseVars, serviceVars, clockVars>>

InitQemu == Init

NextQemu ==
    \/ power_on
    \/ power_off

SpecQemu == InitQemu /\ [][NextQemu]_vars

(***************************************************************************)
(* Specification of the set of boards that the daemon monitors.            *)
(***************************************************************************)

\* The most Board objects that are created.
MaxBoards == 4

\* What getBoardList can answer: the hostnames of the devices of the
\* database at the time, each once, the hostname being the key of a device.
BoardLists ==
    {l \in UNION {[1..n -> Devices] : n \in 0..NumDevices} :
        \A i \in DOMAIN l : \A k \in DOMAIN l : i # k => l[i] # l[k]}

Hostnames(l) == {l[i] : i \in DOMAIN l}

\* Board(source, board_name, ...) followed by start().
Board(board_name) == [board_name |-> board_name, starts |-> 1, stops |-> 0]

\* board.stop() on each of the Board objects given.
stop(objs, stopped) ==
    [o \in DOMAIN objs |->
        IF o \in stopped THEN [objs[o] EXCEPT !.stops = @ + 1] ELSE objs[o]]

\* The body of the loop with a board that is monitored left in self.boards.
cbUpdateBoards_body_without_pop(s, board_name) ==
    IF board_name \in DOMAIN s.boards
    THEN [s EXCEPT !.new_boards =
                      setitem(s.new_boards, board_name, s.boards[board_name])]
    ELSE [s EXCEPT !.new_boards =
                      setitem(s.new_boards, board_name, Len(s.objs) + 1),
                   !.objs = Append(s.objs, Board(board_name))]

\* The body of the loop of _cbUpdateBoards, for one board_cfg: a board
\* that is monitored moves from self.boards to new_boards, any other is
\* created and started.
cbUpdateBoards_body(s, board_name) ==
    IF board_name \in DOMAIN s.boards
    THEN [s EXCEPT !.boards = pop(s.boards, board_name),
                   !.new_boards =
                      setitem(s.new_boards, board_name, s.boards[board_name])]
    ELSE [s EXCEPT !.new_boards =
                      setitem(s.new_boards, board_name, Len(s.objs) + 1),
                   !.objs = Append(s.objs, Board(board_name))]

RECURSIVE cbUpdateBoards_loop(_, _)
cbUpdateBoards_loop(s, cfgs) ==
    IF cfgs = <<>>
    THEN s
    ELSE cbUpdateBoards_loop(cbUpdateBoards_body(s, Head(cfgs)), Tail(cfgs))

\* BoardSet.startService: the looping call is started.
startService ==
    /\ update_boards_call = "new"
    /\ update_boards_call' = "running"
    /\ UNCHANGED <<boards, board_objs, board_cfgs>>
    /\ UNCHANGED <<schedVars, pipeVars, targetVars, jobVars, releaseVars, clockVars>>

\* BoardSet._updateBoards, called by the looping call while it runs and
\* the call before has been answered: getBoardList reads the database in
\* a thread.
updateBoards ==
    /\ update_boards_call = "running"
    /\ board_cfgs = NoCall
    /\ \E l \in BoardLists :
          /\ Len(board_objs) + Cardinality(Hostnames(l) \ DOMAIN boards)
                <= MaxBoards
          /\ board_cfgs' = l
    /\ UNCHANGED <<boards, board_objs, update_boards_call>>
    /\ UNCHANGED <<schedVars, pipeVars, targetVars, jobVars, releaseVars, clockVars>>

\* BoardSet._cbUpdateBoards(board_cfgs), the callback of getBoardList.
cbUpdateBoards ==
    /\ board_cfgs # NoCall
    /\ LET s == cbUpdateBoards_loop(
                    [boards |-> boards, new_boards |-> <<>>,
                     objs |-> board_objs], board_cfgs)
       IN  /\ board_objs' =
                 stop(s.objs, {s.boards[h] : h \in DOMAIN s.boards})
           /\ boards' = s.new_boards
    /\ board_cfgs' = NoCall
    /\ UNCHANGED update_boards_call
    /\ UNCHANGED <<schedVars, pipeVars, targetVars, jobVars, releaseVars, clockVars>>

\* BoardSet.stopService: the looping call is stopped and so is every
\* board of self.boards.  An answer on its way still reaches the callback.
stopService ==
    /\ update_boards_call = "running"
    /\ update_boards_call' = "stopped"
    /\ board_objs' = stop(board_objs, {boards[h] : h \in DOMAIN boards})
    /\ UNCHANGED <<boards, board_cfgs>>
    /\ UNCHANGED <<schedVars, pipeVars, targetVars, jobVars, releaseVars, clockVars>>

InitService == Init

NextService ==
    \/ startService
    \/ updateBoards
    \/ cbUpdateBoards
    \/ stopService

SpecService == InitService /\ [][NextService]_vars

(***************************************************************************)
(* Specification of the push step of the release script.                   *)
(***************************************************************************)

\* The greatest value of options.count when handle_push is entered.
MaxCount == 3

PUSH == "git push origin master"
PUSH_TAGS == "git push --tags origin master"

\* What the API answers as the status of the last pipeline of a commit:
\* "" stands for a commit without pipeline.
Statuses ==
    {"", "pending", "running", "success", "failed", "canceled", "skipped"}

\* run(cmd, options), but for its prompt: whether the command is run.
skipped(o) == o.skip >= o.count
runs(o) == ~skipped(o) /\ ~o.dry_run

\* run(cmd, options): the command is run unless it is skipped or the run
\* is dry, the count goes up, and anything that the command returns but 0
\* is raised.  What subprocess.call can return is 0 or 1 here.
run_command(cmd, next) ==
    /\ options' = [options EXCEPT !.count = @ + 1]
    /\ IF runs(options)
       THEN \E ret \in {0, 1} :
               /\ commands' = Append(commands, [cmd |-> cmd, ret |-> ret])
               /\ at' = IF ret # 0 THEN "raised" ELSE next
       ELSE /\ commands' = commands
            /\ at' = next

\* handle_push: run("git push origin master", options).
push ==
    /\ at = "push"
    /\ run_command(PUSH, "rev-parse")
    /\ UNCHANGED observed
    /\ UNCHANGED <<schedVars, pipeVars, targetVars, jobVars, clockVars,
                   serviceVars>>

\* handle_push: git rev-parse origin/master, whatever the options; it
\* gives the commit or check_output raises.
rev_parse ==
    /\ at = "rev-parse"
    /\ at' \in {"if", "raised"}
    /\ UNCHANGED <<options, commands, observed>>
    /\ UNCHANGED <<schedVars, pipeVars, targetVars, jobVars, clockVars,
                   serviceVars>>

\* The condition of handle_push, were it that the push was not skipped.
waits_if_pushed(o) == ~o.dry_run /\ ~(o.skip >= o.count - 1)

\* The condition under which handle_push waits for the pipeline.
waits(o) == ~o.dry_run /\ ~(o.skip >= o.count)

\* handle_push: if not options.dry_run and not options.skip >=
\* options.count.
wait_or_not ==
    /\ at = "if"
    /\ at' = IF waits(options) THEN "wait" ELSE "tag"
    /\ UNCHANGED <<options, commands, observed>>
    /\ UNCHANGED <<schedVars, pipeVars, targetVars, jobVars, clockVars,
                   serviceVars>>

\* How one turn of the loop of wait_pipeline ends, given the status.
wait_pipeline_status(status) ==
    IF status = "success" THEN "tag"
    ELSE IF status \in {"failed", "canceled", "skipped"} THEN "raised"
    ELSE "wait"

\* wait_pipeline, one turn of its loop: the status of the last pipeline of
\* the commit is asked for, or the request raises.
wait_pipeline ==
    /\ at = "wait"
    /\ \/ \E status \in Statuses :
             /\ observed' = observed \cup {status}
             /\ at' = wait_pipeline_status(status)
       \/ /\ at' = "raised"
          /\ observed' = observed
    /\ UNCHANGED <<options, commands>>
    /\ UNCHANGED <<schedVars, pipeVars, targetVars, jobVars, clockVars,
                   serviceVars>>

\* handle_push: run("git push --tags origin master", options).
push_tags ==
    /\ at = "tag"
    /\ run_command(PUSH_TAGS, "done")
    /\ UNCHANGED observed
    /\ UNCHANGED <<schedVars, pipeVars, targetVars, jobVars, clockVars,
                   serviceVars>>

\* handle_push is entered, after the handlers before it if any, with any
\* number of steps to skip, dry or not.
InitRelease ==
    /\ options \in [count : 1..MaxCount, skip : 0..(MaxCount + 1),
                     dry_run : BOOLEAN]
    /\ at = "push"
    /\ commands = <<>>
    /\ observed = {}
    /\ dev = [d \in Devices |-> [status |-> IDLE, current_job |-> None]]
    /\ job = [j \in Jobs |-> [status |-> SUBMITTED]]
    /\ InitThreads
    /\ NotStarted
    /\ BoardSet_init
    /\ NoDeployment

NextRelease ==
    \/ push
    \/ rev_parse
    \/ wait_or_not
    \/ wait_pipeline
    \/ push_tags

SpecRelease == InitRelease /\ [][NextRelease]_vars

(***************************************************************************)
(* Properties of the job source.                                           *)
(***************************************************************************)

\* What the properties say of the database, in their own words.
QueuedFor(d) == {j \in Jobs : target(j) = d /\ job[j].status = SUBMITTED}
RunningOn(d) == {j \in Jobs : target(j) = d /\ job[j].status = RUNNING}
BoundTo(j) == {d \in Devices : dev[d].current_job = j}
ClaimPcs == {"g_read", "g_query", "g_save_dev", "g_save_job", "g_commit"}
ClaimReturnsNone(p) ==
    pc[p] \in ClaimPcs /\ pc'[p] = "idle" /\ result'[p] = None

\* C1: of the claim calls for one board, at most one obtains a job: no two
\* calls are returned the same job, and a board is not handed a second job
\* while the job it was handed is not complete.
C1_AtMostOneClaimant ==
    \A p, q \in Procs :
        (/\ p # q
         /\ result[p] \in Jobs
         /\ result[q] \in Jobs
         /\ target(result[p]) = target(result[q]))
        => /\ result[p] # result[q]
           /\ \/ job[result[p]].status = COMPLETE
              \/ job[result[q]].status = COMPLETE

\* C2: every job is the current job of at most one device, and every device
\* has at most one running job.
C2_ExclusiveBinding ==
    /\ \A j \in Jobs : Cardinality(BoundTo(j)) <= 1
    /\ \A d \in Devices : Cardinality(RunningOn(d)) <= 1

\* C3: a claim that reads a device that is not idle, or finds no submitted
\* job for it, returns None; and a claim that returns None leaves every
\* device row and every job row as it was, with nothing written.
C3_NoOpClaim ==
    [][\A p \in Procs :
          /\ (pc[p] = "g_read" /\ pc'[p] # "g_read"
                 /\ dev[board[p]].status # IDLE) => ClaimReturnsNone(p)
          /\ (pc[p] = "g_query" /\ pc'[p] # "g_query"
                 /\ QueuedFor(board[p]) = {}) => ClaimReturnsNone(p)
          /\ ClaimReturnsNone(p) =>
                /\ dev' = dev
                /\ job' = job
                /\ txDev[p] = NoDevWrite /\ txDev'[p] = NoDevWrite
                /\ txJob[p] = NoJobWrite /\ txJob'[p] = NoJobWrite]_vars

\* A claim has returned None while board 1 is running a job.
C3_Witness ==
    \E p \in Procs :
        /\ pc[p] = "idle"
        /\ result[p] = None
        /\ dev[1].status = DEV_RUNNING

\* C4: a jobCompleted call for a board that has a running job does not fail,
\* and when it commits the board is idle with no current job and the job it
\* marked is complete.
C4_CompleteFreesDevice ==
    [][\A p \in Procs :
          /\ (/\ pc[p] = "c_get_job"
              /\ pc'[p] # "c_get_job"
              /\ RunningOn(board[p]) # {}) => result'[p] # Raised
          /\ (pc[p] = "c_commit" /\ pc'[p] = "idle") =>
                /\ dev'[board[p]] = [status |-> IDLE, current_job |-> None]
                /\ job'[selJob[p]].status = COMPLETE]_vars

\* C5: when the save of the device row hits the unique index (another
\* device's committed row holds the job), nothing of the attempt is in the
\* database or left written, and the call is back at the read of the device.
C5_ConflictRollsBackAndRetries ==
    [][\A p \in Procs :
          (/\ pc[p] = "g_save_dev"
           /\ BoundTo(selJob[p]) \ {board[p]} # {}
           /\ <<pc[p], retried[p]>> # <<pc'[p], retried'[p]>>)
          => /\ dev' = dev
             /\ job' = job
             /\ txDev'[p] = NoDevWrite
             /\ txJob'[p] = NoJobWrite
             /\ pc'[p] = "g_read"
             /\ retried'[p]]_vars

\* A call that hit the conflict is at the read of the device again.
C5_Witness ==
    \E p \in Procs :
        /\ pc[p] = "g_read"
        /\ retried[p]
        /\ txDev[p] = NoDevWrite
        /\ txJob[p] = NoJobWrite

C7_ListIsIdleDevices ==
    [][boardList' # boardList =>
          boardList' = {d \in Devices : dev[d].status = IDLE}]_vars

\* C7, amended: the list is the set of all the devices, idle or running.
C7_ListIsAllDevices ==
    [][boardList' # boardList => boardList' = Devices]_vars

\* The list has been fetched and names a board that is running a job.
C7_Witness ==
    \E d \in boardList : dev[d].status = DEV_RUNNING

(***************************************************************************)
(* Properties of the pipeline.                                             *)
(***************************************************************************)

IsPrefix(s, t) == Len(s) <= Len(t) /\ s = SubSeq(t, 1, Len(s))

\* The children of the pipeline of a, in the order they appear in s.
ChildrenIn(s, a) == SelectSeq(s, LAMBDA n : n \in Range(actions[a]))

ValidationOver == phase \notin {"build", "validate"}

\* C8: validate and run visit the children of every pipeline in the order
\* they were appended at build time; after a whole validation pass and after
\* a whole run the names visited are the names appended, and for
\* prepare-tftp-overlay they are extract-nfsrootfs, lava-overlay,
\* extract-overlay-ramdisk, extract-modules, apply-overlay-tftp,
\* compress-ramdisk in that order.
C8_VisitedInBuildOrder ==
    /\ \A a \in ActionNames \cup {JOB} :
          /\ IsPrefix(ChildrenIn(validated, a), actions[a])
          /\ IsPrefix(ChildrenIn(ran, a), actions[a])
          /\ phase \in {"run", "rejected", "failed", "done"}
                => ChildrenIn(validated, a) = actions[a]
          /\ phase = "done" => ChildrenIn(ran, a) = actions[a]
    /\ phase = "done" =>
          ChildrenIn(ran, "prepare-tftp-overlay") =
              <<"extract-nfsrootfs", "lava-overlay", "extract-overlay-ramdisk",
                "extract-modules", "apply-overlay-tftp", "compress-ramdisk">>

\* The whole tree has been built, validated and run.
C8_Witness ==
    /\ phase = "done"
    /\ Len(ran) = Cardinality(ActionNames)
    /\ Len(validated) = Cardinality(ActionNames)
    /\ truth(parameters.nfsrootfs)

\* C9: when validation is over no exception has escaped a validate, every
\* action of the tree has been validated, and every action with a failed
\* precondition (no support scripts, no exportfs for an NFS job, no mkimage
\* for a ramdisk job) has an error.
C9_ValidationIsAFullPass ==
    ValidationOver =>
        /\ phase # "raised"
        /\ Range(validated) = ActionNames
        /\ ~context.scripts => errors["lava-overlay"] # {}
        /\ (truth(parameters.nfsrootfs) /\ ~context.exportfs)
              => errors["extract-nfsrootfs"] # {}
        /\ (truth(parameters.ramdisk) /\ ~context.mkimage)
              => errors["compress-ramdisk"] # {}

\* C10: when the run of an action is entered, validate has been entered on
\* every action of the tree and no action has an error; and once the job is
\* rejected nothing is ever run.
C10_RunOnlyOnAValidTree ==
    [][/\ ran' # ran =>
             /\ Range(validated) = ActionNames
             /\ \A a \in ActionNames : errors[a] = {}
       /\ phase = "rejected" => ran' = <<>>]_vars

\* The whole tree was validated, an action has an error, nothing was run.
C10_Witness ==
    /\ phase = "rejected"
    /\ Range(validated) = ActionNames
    /\ \E a \in ActionNames : errors[a] # {}
    /\ ran = <<>>

(***************************************************************************)
(* Properties of RetryAction and of the run of a pipeline.                 *)
(***************************************************************************)

\* How many times the internal pipeline of the RetryAction was executed:
\* the times its first action was run.
Executions == Len(SelectSeq(ran, LAMBDA n : n = "monitor-pyocd"))

AllFailed(outcomes) ==
    \A i \in 1..Len(outcomes) : outcomes[i] = "JobError"

C13_ErrorAbortsSiblings ==
    [][/\ (exception = "none" /\ exception' # "none")
             => \/ phase' = "failed" /\ stack' = <<>>
                \/ /\ phase' = "run"
                   /\ stack'[Len(stack')].parent = "boot_pyocd_image (retry)"
                   /\ ran'[Len(ran')] \in {"monitor-pyocd", "connect-device"}
       /\ (exception # "none" \/ phase = "failed") => ran' = ran]_vars

\* An action of the overlay failed: the siblings after it, those of its
\* parent and the boot were not run.
C13_Witness ==
    /\ phase = "failed"
    /\ ran[Len(ran)] = "compress-overlay"
    /\ "extract-overlay-ramdisk" \notin Range(ran)
    /\ "boot_pyocd_image" \notin Range(ran)

\* C14: the connection changes only when connect-device, the action of the
\* boot that makes the connection, returns; every other run that returns,
\* a no-op included, and every return of an internal pipeline leaves the
\* connection as it was received; connect-device returns another.
C14_NonBootReturnsItsConnection ==
    [][/\ connection' # connection
             => ran' = Append(ran, "connect-device") /\ exception' = "none"
       /\ (ran' = Append(ran, "connect-device") /\ exception' = "none")
             => connection' # connection]_vars

\* Without a ramdisk extract-overlay-ramdisk and compress-ramdisk have
\* returned, each the shell connection it was given.
C14_Witness ==
    /\ ~truth(parameters.ramdisk)
    /\ connection = SHELL
    /\ exception = "none"
    /\ ran # <<>>
    /\ ran[Len(ran)] = "compress-ramdisk"

(***************************************************************************)
(* Properties of the QEMU target.                                          *)
(***************************************************************************)

Open == {p \in 1..Len(procs) : procs[p] = "open"}

\* C15: across any sequence of power_on and power_off at most one
\* connection to the device is open.
C15_AtMostOneOpen == Cardinality(Open) <= 1

(***************************************************************************)
(* Properties of the data store.                                           *)
(***************************************************************************)

\* The action whose run() the step enters.
Runs(a) == ran' = Append(ran, a)

\* C16: no read of the data store by the run() of an action throws: no
\* run() ends with a KeyError.
C16_GetNeverThrows == exception # "KeyError"

\* C17, as stated: a run() writes only under the name of its action, and
\* every entry it overwrites or removes is one its action wrote.
C17_WritesUnderOwnName ==
    [][/\ \A e \in data' \ data : Runs(e.action)
       /\ \A e \in data \ data' : Runs(e.value)]_vars

\* C17, amended: a run() of a deploy action writes only under the name of
\* its action, that of monitor-pyocd writes boot-result under the shared
\* name 'boot'; every entry a run() overwrites or removes is one its action
\* wrote.
C17_WritesOwnEntries ==
    [][/\ \A e \in data' \ data :
             /\ Runs(e.value)
             /\ \/ e.action = e.value
                \/ /\ e.value = "monitor-pyocd"
                   /\ e.action = "boot"
                   /\ e.key = "boot-result"
       /\ \A e \in data \ data' : Runs(e.value)]_vars

\* The deploy has recorded the ramdisk it made and the boot its result.
C17_Witness ==
    /\ Has(data, "compress-ramdisk", "ramdisk")
    /\ Has(data, "extract-overlay-ramdisk", "ramdisk_file")
    /\ Get(data, "boot", "boot-result") = "monitor-pyocd"

C19_NoRamdiskNoOp ==
    [][/\ (~truth(parameters.ramdisk)
              /\ (Runs("extract-overlay-ramdisk") \/ Runs("compress-ramdisk")))
             => /\ exception' = "none"
                /\ connection' = connection
                /\ data' = data
                /\ unpacked' = unpacked
       /\ (~truth(parameters.ramdisk) /\ Runs("compress-overlay")
              /\ exception' = "none")
             => Get(data', "compress-overlay", "output") # Absent]_vars

\* Without a ramdisk the deploy has run to its last action: the archive of
\* the overlay is recorded and nothing of a ramdisk.
C19_Witness ==
    /\ ~truth(parameters.ramdisk)
    /\ ran # <<>>
    /\ ran[Len(ran)] = "compress-ramdisk"
    /\ exception = "none"
    /\ Has(data, "compress-overlay", "output")
    /\ \A e \in data :
          e.action \notin {"extract-overlay-ramdisk", "compress-ramdisk"}

\* C20: with the ramdisk parameter and no extracted_ramdisk recorded the
\* run() of apply-overlay-tftp raises, the job fails and the overlay is
\* extracted nowhere.
C20_ApplyFailsWithoutRamdiskDir ==
    [][(truth(parameters.ramdisk)
           /\ ~Has(data, "extract-overlay-ramdisk", "extracted_ramdisk")
           /\ Runs("apply-overlay-tftp"))
          => /\ exception' # "none"
             /\ phase' = "failed"
             /\ unpacked' = {}]_vars

\* The overlay archive is recorded, the directory of the ramdisk is not:
\* apply-overlay-tftp has failed.
C20_Witness ==
    /\ truth(parameters.ramdisk)
    /\ ran = <<"apply-overlay-tftp">>
    /\ Has(data, "compress-overlay", "output")
    /\ ~Has(data, "extract-overlay-ramdisk", "extracted_ramdisk")
    /\ phase = "failed"
    /\ exception = "KeyError"
    /\ unpacked = {}

\* C29: with neither a ramdisk nor an nfsrootfs the run() of
\* apply-overlay-tftp raises nothing, extracts nothing and returns the
\* connection it was given.
C29_ApplyIsNoOpWithoutImages ==
    [][(~truth(parameters.ramdisk) /\ ~truth(parameters.nfsrootfs)
           /\ Runs("apply-overlay-tftp"))
          => /\ exception' = "none"
             /\ phase' = "run"
             /\ unpacked' = unpacked
             /\ connection' = connection]_vars

(***************************************************************************)
(* Properties of the completion of a job.                                  *)
(***************************************************************************)

\* C28: a job is recorded complete only if its run has not failed: no
\* action of its tree ended in an error that was not retried or in the
\* last attempt of a RetryAction.
C28_CompleteOnlyIfRunSucceeded ==
    job[1].status = COMPLETE => phase = "done"

(***************************************************************************)
(* Properties of the overlay actions.                                      *)
(***************************************************************************)

\* C21: when the location of the overlay is not recorded in the store or is
\* not on the host, the run() of compress-overlay raises RuntimeError,
\* valid or not, and makes and records nothing; when it finds no archive
\* path recorded, it has recorded one exactly when it has made the
\* archive.
C21_CompressOverlayFailsLoudly ==
    [][Runs("compress-overlay")
          => /\ (~Has(data, "lava-overlay", "location")
                    \/ LOCATION \notin files)
                   => /\ exception' = "RuntimeError"
                      /\ data' = data
                      /\ files' = files
             /\ ~Has(data, "compress-overlay", "output")
                   => (Has(data', "compress-overlay", "output")
                          <=> ARCHIVE \in files')]_vars

\* An invalid compress-overlay was run without the location recorded, and
\* has raised.
C21_Witness ==
    /\ ran = <<"compress-overlay">>
    /\ errors["compress-overlay"] = {"invalid"}
    /\ ~Has(data, "lava-overlay", "location")
    /\ exception = "RuntimeError"
    /\ phase = "failed"

\* C22: the run() of apply-overlay-image raises and extracts nothing when
\* no archive of the overlay is recorded or when the directory recorded
\* for the image is not a mount point; what it has extracted, it has
\* extracted into that directory, with the archive recorded and the
\* directory mounted.
C22_ApplyImageNeedsMount ==
    [][Runs("apply-overlay-image")
          => /\ (Get(data, "compress-overlay", "output") = Absent
                    \/ MOUNT \notin files)
                   => exception' # "none" /\ unpacked' = unpacked
             /\ unpacked' # unpacked
                   => /\ exception' = "none"
                      /\ Get(data, "compress-overlay", "output") # Absent
                      /\ MOUNT \in files
                      /\ unpacked' = {Get(data, "loop_mount", "mntdir")}]_vars

\* The archive and the directory are recorded, the directory is not
\* mounted: apply-overlay-image has raised.
C22_Witness ==
    /\ ran = <<"apply-overlay-image">>
    /\ Has(data, "compress-overlay", "output")
    /\ Has(data, "loop_mount", "mntdir")
    /\ MOUNT \notin files
    /\ exception = "RuntimeError"
    /\ unpacked = {}

(***************************************************************************)
(* Selection of the boot strategy.                                         *)
(***************************************************************************)

\* The strategy was selected and constructed in this step.
Selected == phase = "select" /\ phase' = "build"

\* No strategy accepted in this step.
NoneSelected == phase = "select" /\ phase' = "raised"

\* C30: BootMonitorPyOCD.accepts is true exactly when pyocd is one of the
\* boot methods of the device, the stanza names a method and that method is
\* monitor, and the device has a board_id; the boot is constructed exactly
\* for such a device and stanza, and evaluating the predicate leaves the
\* device and the stanza as they were.
C30_AcceptsExactly ==
    [][phase = "select" =>
        /\ BootMonitorPyOCD_accepts(device, stanza)
             <=> /\ "pyocd" \in device.methods
                 /\ stanza.method # Absent
                 /\ stanza.method = "monitor"
                 /\ device.board_id # Absent
        /\ Selected
             <=> /\ "pyocd" \in device.methods
                 /\ stanza.method = "monitor"
                 /\ device.board_id # Absent
        /\ UNCHANGED <<device, stanza>>]_vars

\* A device that boots with other methods too was accepted, and its boot
\* was built.
C30_Witness ==
    /\ phase = "validate"
    /\ device.methods = {"pyocd", "u-boot"}
    /\ actions[JOB] = <<BOOT_PYOCD_IMAGE>>
    /\ actions[BOOT_PYOCD_RETRY] = <<MONITOR_PYOCD, CONNECT_DEVICE>>

SameName(p) ==
    {pair \in (DOMAIN actions[p]) \X (DOMAIN actions[p]) :
        /\ pair[1] # pair[2]
        /\ name(actions[p][pair[1]]) = name(actions[p][pair[2]])}

\* C24 as stated: in every pipeline the children at one level have
\* pairwise distinct names.
C24_DistinctSiblingNames ==
    \A p \in DOMAIN actions : SameName(p) = {}

\* C24: the children at one level that share a name are the downloads of
\* tftp-deploy, one per image, all named download-retry; all other children
\* at one level have pairwise distinct names.
C24_DistinctButDownloads ==
    \A p \in DOMAIN actions :
        \A pair \in SameName(p) :
            /\ p = TFTP_DEPLOY
            /\ name(actions[p][pair[1]]) = DOWNLOAD_RETRY

\* The tftp deploy is built, down to the children of lava-overlay.
C24_Witness ==
    /\ phase = "validate"
    /\ Len(actions[TFTP_DEPLOY]) = 6
    /\ SameName(TFTP_DEPLOY) # {}
    /\ Len(actions[PREPARE_TFTP_OVERLAY]) = 6
    /\ Len(actions[LAVA_OVERLAY]) = 3

(***************************************************************************)
(* The attributes of an action after its construction.                     *)
(***************************************************************************)

\* The attributes of a that this step changes.
Assigned(a) == {k \in DOMAIN fields[a] : fields'[a][k] # fields[a][k]}

\* C27 as stated: after construction no attribute of an action changes but
\* its errors.
C27_OnlyErrorsMutated == [][fields' = fields]_vars

\* C27: run changes no attribute of an action but its errors; validate
\* also assigns the attributes that run reads, and only its own:
\* scripts_to_copy of the overlay actions, role of the multinode overlay,
\* sub_command of monitor-pyocd.  When run starts the scripts are listed.
C27_OnlyValidateAssigns ==
    [][/\ phase = "run" =>
            /\ fields' = fields
            /\ fields[LAVA_OVERLAY].scripts_to_copy # <<>>
       /\ \A a \in WithAttributes :
            Assigned(a) # {} =>
               /\ phase = "validate"
               /\ Top.parent = a
               /\ \/ a = LAVA_OVERLAY /\ Assigned(a) = {"scripts_to_copy"}
                  \/ a = MULTINODE_OVERLAY
                       /\ Assigned(a) \subseteq {"scripts_to_copy", "role"}
                  \/ a = MONITOR_PYOCD /\ Assigned(a) = {"sub_command"}]_vars

\* The deploy was validated, its validate assigned the role and the scripts,
\* and its actions have run.
C27_Witness ==
    /\ phase = "done"
    /\ fields[MULTINODE_OVERLAY].role = "role"
    /\ fields[LAVA_OVERLAY].scripts_to_copy # <<>>
    /\ COMPRESS_OVERLAY \in Range(ran)

(***************************************************************************)
(* Deadlines of the operations started.                                    *)
(***************************************************************************)

\* C26 as stated, its last part: no operation is started without a
\* deadline: every process spawned was given a timeout.
C26_NoOperationWithoutDeadline ==
    \A p \in 1..Len(procs) : spawn_timeout[p] # Absent

C31_DeviceAndJobAgree ==
    /\ \A d \in Devices :
          dev[d].status = DEV_RUNNING
             <=> /\ dev[d].current_job # None
                 /\ job[dev[d].current_job].status = RUNNING
                 /\ target(dev[d].current_job) = d
    /\ \A j \in Jobs :
          job[j].status = RUNNING => dev[target(j)].current_job = j

\* C32 as stated: the job a claim selects is, of the submitted jobs of its
\* board, the one submitted first.
C32_EarliestSubmittedFirst ==
    [][\A p \in Procs :
          pc[p] = "g_query" /\ pc'[p] = "g_save_dev"
             => \A j \in JobsForDevice(board[p]) : selJob'[p] <= j]_vars

\* C33: jobCompleted for a device that has no running job fails, and the
\* failing call writes nothing: the step that looks for the job fails and
\* leaves the committed rows as they are, and the call has no write
\* pending, neither when it fails nor before.
C33_FailedCompletionWritesNothing ==
    [][\A p \in Procs :
          /\ (pc[p] = "c_get_job" /\ pc'[p] # "c_get_job"
                 /\ \A j \in Jobs :
                       target(j) = board[p] => job[j].status # RUNNING)
               => /\ result'[p] = Raised
                  /\ pc'[p] = "idle"
                  /\ dev' = dev
                  /\ job' = job
                  /\ txDev'[p] = NoDevWrite
                  /\ txJob'[p] = NoJobWrite
          /\ pc[p] \in {"c_read", "c_get_job"}
               => txDev[p] = NoDevWrite /\ txJob[p] = NoJobWrite]_vars

\* A completion has failed for a device that is marked RUNNING and has a
\* current job but no running job: the device is as it was.
C33_Witness ==
    \E p \in Procs :
        /\ result[p] = Raised
        /\ pc[p] = "idle"
        /\ pc = [q \in Procs |-> "idle"]
        /\ dev[1].status = DEV_RUNNING
        /\ dev[1].current_job = 1
        /\ \A j \in Jobs : target(j) = 1 => job[j].status = SUBMITTED

(***************************************************************************)
(* Properties of the set of boards.                                        *)
(***************************************************************************)

\* The refresh that the callback of getBoardList makes.
Refreshed == board_cfgs # NoCall /\ board_cfgs' = NoCall
Listed == Hostnames(board_cfgs)
\* The Board objects of a hostname that were started more often than
\* stopped.
Monitoring(h) ==
    {o \in DOMAIN board_objs :
        board_objs[o].board_name = h /\ board_objs[o].starts > board_objs[o].stops}

C35_ReadsAfterWrites ==
    [][\A a \in ActionNames :
          Runs(a) => \A r \in run_reads(a) :
                        /\ Has(data, r.action, r.key)
                        /\ Get(data, r.action, r.key) \in Range(ran)]_vars

\* C36: whatever the values of 'ramdisk' and 'nfsrootfs', not given,
\* empty or not, the four actions agree on whether the job has a ramdisk,
\* apply-overlay-tftp takes the directory of the ramdisk only when
\* extract-overlay-ramdisk has extracted one, and extract-modules unpacks
\* into the directory that apply-overlay-tftp extracts the overlay into.
C36_ActionsAgreeOnRamdisk ==
    [][Runs("apply-overlay-tftp") =>
          /\ ExtractRamdisk_ramdisk = ApplyOverlayTftp_ramdisk
          /\ ExtractModules_ramdisk = ApplyOverlayTftp_ramdisk
          /\ CompressRamdisk_ramdisk = ApplyOverlayTftp_ramdisk
          /\ ApplyOverlayTftp_ramdisk =>
                Get(data, "extract-overlay-ramdisk", "extracted_ramdisk")
                   = "extract-overlay-ramdisk"
          /\ truth(parameters.modules) =>
                ExtractModules_root = ApplyOverlayTftp_root]_vars

\* C37: the run() of extract-overlay-ramdisk, of compress-ramdisk and of
\* compress-overlay, each of which changes the working directory, has
\* changed it back when it returns and when it raises.
C37_WorkingDirectoryRestored ==
    [][(Runs("extract-overlay-ramdisk") \/ Runs("compress-ramdisk")
           \/ Runs("compress-overlay"))
          => cwd' = cwd]_vars

\* C38: when the run() of compress-ramdisk has returned, the path recorded
\* as compress-ramdisk/ramdisk is that of the ramdisk it has made, where it
\* is: a file of the directory of the TFTP server.
C38_RecordedRamdiskExists ==
    [][(Runs("compress-ramdisk") /\ exception' = "none"
           /\ truth(parameters.ramdisk))
          => /\ Entry("compress-ramdisk", "ramdisk") \in DOMAIN paths'
             /\ File(paths'[Entry("compress-ramdisk", "ramdisk")],
                     "compress-ramdisk") \in host'
             /\ dirname(paths'[Entry("compress-ramdisk", "ramdisk")])
                   = dirname(Download_file)]_vars

\* C39: when a run() of extract-nfsrootfs or of lava-overlay has returned,
\* be it the first or a later one, the directory recorded as
\* extract-nfsrootfs/nfsroot, or as lava-overlay/location, is the
\* directory that this run() has populated.
C39_RecordedIsPopulated ==
    [][/\ (Runs("extract-nfsrootfs") /\ exception' = "none"
              /\ truth(parameters.nfsrootfs))
             => paths'[Entry("extract-nfsrootfs", "nfsroot")]
                   = ExtractNfsRootfs_populates(Host)
       /\ (Runs("lava-overlay") /\ exception' = "none")
             => paths'[Entry("lava-overlay", "location")]
                   = OverlayAction_populates(Host)]_vars

(***************************************************************************)
(* Properties of the release script.                                       *)
(***************************************************************************)

Ran(cmd) == \E i \in DOMAIN commands : commands[i].cmd = cmd
Failed(cmd) ==
    \E i \in DOMAIN commands : commands[i].cmd = cmd /\ commands[i].ret # 0

\* C40: in the push step the tags are pushed only after the pipeline of
\* the commit has been seen with the status 'success'; they are never
\* pushed once the pipeline is seen failed, canceled or skipped, nor once
\* the push of the branch has failed, whatever the count, the number of
\* steps to skip and the dry-run flag.
C40_TagsOnlyAfterSuccess ==
    /\ Ran(PUSH_TAGS) => "success" \in observed
    /\ observed \cap {"failed", "canceled", "skipped"} # {} => ~Ran(PUSH_TAGS)
    /\ Failed(PUSH) => ~Ran(PUSH_TAGS)
    /\ at = "tag" /\ runs(options) => "success" \in observed

\* The push of the branch was skipped, the pipeline was seen running and
\* then a success, and the tags are pushed.
C40_Witness ==
    /\ at = "done"
    /\ ~Ran(PUSH)
    /\ Ran(PUSH_TAGS)
    /\ ~Failed(PUSH_TAGS)
    /\ {"running", "success"} \subseteq observed

=============================================================================
